---- MODULE Spec2Model ----
(***************************************************************************)
(* Trip synchronization layer of pack-trip: the client hook useTripState   *)
(* (query cache, optimistic vote / availability mutations, WebSocket event *)
(* dispatcher) and the Express server it talks to (routes + MemStorage).   *)
(*                                                                         *)
(* Scheduling.  Client and server are single-threaded JavaScript.  An      *)
(* `await` of a promise that is already settled (every MemStorage method,  *)
(* queryClient.cancelQueries) resumes in a microtask, and the microtask    *)
(* queue is drained before the next timer, network or user callback runs.  *)
(* One action is therefore one callback together with its microtask        *)
(* continuations; network round trips are the steps between actions.       *)
(*                                                                         *)
(* Dates are instants counted in hours since 00:00 UTC of day 0.           *)
(***************************************************************************)
EXTENDS Integers, Sequences, FiniteSets, TLC

\* ------------------------------------------------------------- bounds
\* mutations one behaviour starts
MaxMut == 2
\* ids the store hands out to votes / availability records in one behaviour
MaxVoteId == 2
MaxAvailabilityId == 2
\* distinct readings of the clock
MaxTick == 1
\* POSTs per collection in the server-only behaviours
MaxPosts == 3
\* pairs in one batch, records in an initial cache, repetitions of one vote
MaxBatch == 2
MaxCached == 2
MaxToggles == 3
\* frames the server sends in the behaviours of the dispatcher alone
MaxFrames == 3
\* sockets one useWebSocket instance creates
MaxSockets == 7
\* changes of the tripId prop of one useWebSocket instance
MaxChanges == 1
\* frames one useWebSocket instance receives
MaxInbound == 1
\* POST /api/trips requests for the trip
MaxTripPosts == 2
\* availability POSTs, date clicks and parent renders in the behaviours of the calendar
MaxSaves == 2
MaxClicks == 2
MaxRenders == 2

\* ------------------------------------------------------------- domains
\* useTripState(tripId, userId): the acting user of this client
userId == 1
Users == {1, 2}
Options == {"culture-history"}
AllOptions == Options \cup {"food-tour"}
Emojis == {"up", "heart"}
\* instants: 06:00 and 12:00 UTC of day 0, 12:00 UTC of day 1
Instants == {6, 12, 36}
\* the browser's timezone offset in hours, as far as the pure checks go
TzOffsets == {0 - 7, 0, 13}
Slots == 1..MaxMut
Ticks == 1..MaxTick

\* ------------------------------------------------------------- helpers
\* Array.prototype.findIndex: the first index (1-based) whose element
\* satisfies Test, 0 when there is none (JavaScript's -1).
findIndex(s, Test(_)) ==
  LET hits == {i \in 1..Len(s) : Test(s[i])}
  IN  IF hits = {} THEN 0 ELSE CHOOSE i \in hits : \A j \in hits : i <= j

\* Array.prototype.filter
filter(s, Test(_)) == SelectSeq(s, Test)

\* ------------------------------------------------------------- dates
\* Date.prototype.toISOString: the UTC calendar fields of the instant.
toISOString(t) == [day |-> t \div 24, hour |-> t % 24]

\* new Date(isoString): the instant of the UTC calendar fields.
parseDate(iso) == iso.day * 24 + iso.hour

\* Date.prototype.toDateString: the calendar day in the local timezone.
toDateString(t, tz) == (t + tz) \div 24

\* Date.now() for a provisional id: a millisecond timestamp; the store's
\* counters are small positive numbers, timestamps are kept apart from them
\* as negative numbers (even), Date.now() + Math.random() as the odd ones.
DateNow(tick) == 0 - 2 * tick
DateNowPlusRandom(tick) == 0 - (2 * tick + 1)

\* ------------------------------------------------------------- query cache
\* A query's data: undefined until the first response or setQueryData.
Undefined == [loaded |-> FALSE, data |-> << >>]
Loaded(d) == [loaded |-> TRUE, data |-> d]

\* setQueryData(key, updater): an updater result of undefined is ignored.
setQueryData(old, new) == IF new.loaded THEN new ELSE old

\* ------------------------------------------------------------- vote toggle
SameVote(v, optionId, emoji) ==
  v.user_id = userId /\ v.option_id = optionId /\ v.emoji = emoji

\* A variant that takes back whatever the user has on the option, as the
\* store's deleteVote does.
VoteOptimisticByOption(previousVotes, optionId, emoji, tick) ==
  LET Hit(v) == v.user_id = userId /\ v.option_id = optionId
      Miss(v) == ~Hit(v)
  IN  IF previousVotes.loaded /\ findIndex(previousVotes.data, Hit) >= 1
      THEN Loaded(filter(previousVotes.data, Miss))
      ELSE Loaded(Append(previousVotes.data,
                    [id |-> DateNow(tick), user_id |-> userId,
                     option_id |-> optionId, emoji |-> emoji]))

\* voteMutation.onMutate, lines 109-156: the cache after the optimistic toggle.
VoteOptimistic(previousVotes, optionId, emoji, tick) ==
  LET Hit(v) == SameVote(v, optionId, emoji)
      Miss(v) == ~SameVote(v, optionId, emoji)
      existingVoteIndex ==
        IF previousVotes.loaded THEN findIndex(previousVotes.data, Hit) ELSE 0
  IN  IF existingVoteIndex >= 1
      THEN setQueryData(previousVotes, Loaded(filter(previousVotes.data, Miss)))
      ELSE setQueryData(previousVotes,
             Loaded(Append(previousVotes.data,
                      [id |-> DateNow(tick), user_id |-> userId,
                       option_id |-> optionId, emoji |-> emoji])))

\* ------------------------------------------------------------- availability
SameDay(a, date, tz) ==
  a.user_id = userId /\ toDateString(parseDate(a.date), tz) = toDateString(date, tz)

\* The updater of setAvailabilityMutation.onMutate on a loaded array,
\* lines 212-235: overwrite the first record of the day, else add one.
setAvailabilityUpdater(old, date, available, tick, tz) ==
  LET Hit(a) == SameDay(a, date, tz)
      existingIndex == findIndex(old, Hit)
  IN  IF existingIndex >= 1
      THEN [i \in 1..Len(old) |->
              IF i = existingIndex
              THEN [old[i] EXCEPT !.available = available]
              ELSE old[i]]
      ELSE old \o << [id |-> DateNow(tick), user_id |-> userId,
                      date |-> toISOString(date), available |-> available] >>

\* setAvailabilityMutation.onMutate, lines 206-237.
AvailabilityOptimistic(old, date, available, tick, tz) ==
  IF ~old.loaded THEN old
  ELSE setQueryData(old, Loaded(setAvailabilityUpdater(old.data, date, available,
                                                      tick, tz)))

\* A variant that looks the record up by the exact instant, as the store does.
BatchStepByInstant(newData, d, tick, tz) ==
  LET existingIndex ==
        findIndex(newData, LAMBDA a : a.user_id = userId /\ parseDate(a.date) = d.date)
  IN  IF existingIndex >= 1
      THEN [newData EXCEPT ![existingIndex].available = d.available]
      ELSE Append(newData, [id |-> DateNowPlusRandom(tick), user_id |-> userId,
                            date |-> toISOString(d.date), available |-> d.available])

\* One turn of dates.forEach in setBatchAvailabilityMutation.onMutate,
\* lines 293-311, on the evolving newData.
BatchStep(newData, d, tick, tz) ==
  LET existingIndex ==
        findIndex(newData, LAMBDA a : a.user_id = userId
                     /\ toDateString(parseDate(a.date), tz) = toDateString(d.date, tz))
  IN  IF existingIndex >= 1
      THEN [newData EXCEPT ![existingIndex].available = d.available]
      ELSE Append(newData, [id |-> DateNowPlusRandom(tick), user_id |-> userId,
                            date |-> toISOString(d.date), available |-> d.available])

RECURSIVE BatchForEach(_, _, _, _, _)
\* dates.forEach, lines 293-312.
BatchForEach(newData, dates, i, tick, tz) ==
  IF i > Len(dates) THEN newData
  ELSE BatchForEach(BatchStep(newData, dates[i], tick, tz), dates, i + 1, tick, tz)

\* setBatchAvailabilityMutation.onMutate, lines 286-316.
BatchOptimistic(old, dates, tick, tz) ==
  IF ~old.loaded THEN old
  ELSE setQueryData(old, Loaded(BatchForEach(old.data, dates, 1, tick, tz)))

\* rollback in onError: `if (context?.previousVotes)` restores the snapshot
\* only when it is truthy; an array (even empty) is, undefined is not.
Rollback(cache, context) == IF context.loaded THEN context ELSE cache

\* A variant that shares one snapshot among the mutations in flight: the
\* one a mutation already in flight took.
SnapshotShared(cache, others) ==
  IF others = {} THEN cache ELSE CHOOSE c \in others : TRUE

\* `const previousVotes = queryClient.getQueryData(...)`: the snapshot a mutation
\* keeps is the cache value its own onMutate read; `others` are the contexts of
\* the mutations on the same collection that are in flight at that moment.
Snapshot(cache, others) == cache

\* ------------------------------------------------------------- queries
\* A query's fetch: idle, requested (GET sent) or responded (the server has
\* answered with data; the response is on its way).
IdleQuery == [st |-> "idle", data |-> << >>]

\* queryClient.cancelQueries: the fetch in flight is dropped.
cancelQueries(q) == IdleQuery

\* A variant that marks the query stale without fetching anything.
invalidateWithoutRefetch(q) == q

\* queryClient.invalidateQueries: the active query is refetched; a fetch
\* already in flight is cancelled and started again.
invalidateQueries(q) == [st |-> "requested", data |-> << >>]

\* ------------------------------------------------------------- MemStorage
\* A variant that compares the option with the vote's emoji, so that no
\* vote matches.
deleteVoteByEmoji(votes, user, optionId) ==
  filter(votes, LAMBDA v : ~(v.userId = user /\ v.emoji = optionId))

\* MemStorage.deleteVote, lines 534-538.
deleteVote(votes, user, optionId) ==
  filter(votes, LAMBDA v : ~(v.userId = user /\ v.optionId = optionId))

\* MemStorage.createVote, lines 519-532.
createVote(votes, id, insertVote) ==
  Append(votes, [id |-> id, userId |-> insertVote.userId,
                 optionId |-> insertVote.optionId, emoji |-> insertVote.emoji])

\* MemStorage.setDateAvailability, lines 567-588.
setDateAvailability(availabilities, id, ins) ==
  LET availability == [id |-> id, userId |-> ins.userId, date |-> ins.date,
                       available |-> ins.available]
      existingIndex ==
        findIndex(availabilities,
                  LAMBDA a : a.userId = ins.userId /\ a.date = ins.date)
  IN  IF existingIndex >= 1
      THEN [availabilities EXCEPT ![existingIndex] = availability]
      ELSE Append(availabilities, availability)

\* POST /api/trips/:tripId/votes, lines 188-192: the store after the request.
PostVote(votes, id, data) ==
  createVote(deleteVote(votes, data.userId, data.optionId), id, data)

RECURSIVE PostBatch(_, _, _, _, _)
\* POST /api/trips/:tripId/availability/batch: one setDateAvailability per
\* pair, in order, each taking the next id.
PostBatch(availabilities, id, user, dates, i) ==
  IF i > Len(dates) THEN availabilities
  ELSE PostBatch(
         setDateAvailability(availabilities, id,
           [userId |-> user, date |-> parseDate(toISOString(dates[i].date)),
            available |-> dates[i].available]),
         id + 1, user, dates, i + 1)

\* The JSON a GET returns, in the field names the client reads.
WireVote(v) ==
  [id |-> v.id, user_id |-> v.userId, option_id |-> v.optionId, emoji |-> v.emoji]

WireAvailability(a) ==
  [id |-> a.id, user_id |-> a.userId, date |-> toISOString(a.date),
   available |-> a.available]

WireVotes(votes) == [i \in 1..Len(votes) |-> WireVote(votes[i])]
WireAvailabilities(as) == [i \in 1..Len(as) |-> WireAvailability(as[i])]

\* ------------------------------------------------------------- dispatcher
\* A variant that refreshes everything on every event.
InvalidatesEverything(type) ==
  {"messages", "trip", "votes", "availability", "participants",
   "missing-preferences", "options"}

\* The switch of the WebSocket effect, lines 370-422: the collections an
\* event type invalidates.
Invalidates(type) ==
  CASE type = "new_message" -> {"messages", "trip"}
    [] type = "vote_update" -> {"votes"}
    [] type = "availability_update" -> {"availability"}
    [] type = "availability_batch_update" -> {"availability"}
    [] type = "user_joined" -> {"participants"}
    [] type = "user_left" -> {"participants"}
    [] type = "preferences_update" -> {"missing-preferences", "participants"}
    [] type = "options_generated" -> {"options", "messages", "trip"}
    [] OTHER -> {}

\* A variant without the position: the whole log every time.
newMessagesFromStart(wsLog, last) == wsLog

\* wsMessages.slice(lastProcessedIndex.current + 1); lastProcessedIndex is the
\* 0-based JavaScript index, sequences here are 1-based.
newMessagesFrom(wsLog, last) == SubSeq(wsLog, last + 2, Len(wsLog))

\* ------------------------------------------------------------- state
VARIABLES
  focus,                   \* the collection the behaviour exercises
  tz,                      \* the browser's timezone offset in hours
  votesCache,              \* query data of /api/trips/:tripId/votes
  availCache,              \* query data of /api/trips/:tripId/availability
  votesQuery,              \* the fetch of the votes query
  availQuery,              \* the fetch of the availability query
  mutations,               \* the mutations started by vote / setAvailability / setBatchAvailability
  wsWire,                  \* events the server has sent, not yet received
  wsMessages,              \* useWebSocket's messages state (the inbound log)
  lastProcessedIndex,      \* useTripState's lastProcessedIndex ref
  joined,                  \* this client's socket is in connections.get(tripId)
  sVotes,                  \* MemStorage.votes of the trip
  currentVoteId,           \* MemStorage.currentVoteId
  sAvail,                  \* MemStorage.dateAvailability of the trip
  currentAvailabilityId,   \* MemStorage.currentAvailabilityId
  dispatched,              \* history: how often each log entry was dispatched
  missed,                  \* history: collections another session wrote unannounced
  trial,                   \* the inputs and results of a check of a pure function
  conn,                    \* useWebSocket: its state, its sockets and its timers
  trip                     \* the stored trip, the trip query and what the page shows of it

\* what no step of the client, the server or the channel changes
setting == << focus, tz, trial, conn, trip >>
clientVars == << setting, votesCache, availCache, votesQuery, availQuery, mutations >>
wsVars == << wsWire, wsMessages, lastProcessedIndex, joined, dispatched >>
serverVars == << sVotes, currentVoteId, sAvail, currentAvailabilityId, missed >>
vars == << clientVars, wsVars, serverVars >>

\* The k-th mutation of a behaviour before it is started.
FreshMutation ==
  [pc |-> "fresh", kind |-> "none", variables |-> << >>, context |-> Undefined,
   before |-> Undefined, earlier |-> {}, outcome |-> "none", invalidated |-> FALSE]

NoTrial == [kind |-> "none"]

\* useWebSocket and the trip query where a behaviour does not exercise them.
NoConn == [kind |-> "none"]
NoTrip == [kind |-> "none"]

\* useQuery on mount: the query is fetching, its data undefined.
FetchingQuery == [st |-> "requested", data |-> << >>]

\* The page has just mounted: the query of the exercised collection is
\* fetching; the other collection's first fetch has already come back (from
\* the still empty store).  The socket has not joined yet.
SyncInit ==
  /\ focus \in {"votes", "availability"}
  /\ tz = 0
  /\ votesCache = IF focus = "votes" THEN Undefined ELSE Loaded(<< >>)
  /\ availCache = IF focus = "availability" THEN Undefined ELSE Loaded(<< >>)
  /\ votesQuery = IF focus = "votes" THEN FetchingQuery ELSE IdleQuery
  /\ availQuery = IF focus = "availability" THEN FetchingQuery ELSE IdleQuery
  /\ mutations = [m \in Slots |-> FreshMutation]
  /\ wsWire = << >>
  /\ wsMessages = << >>
  /\ lastProcessedIndex = -1
  /\ joined = FALSE
  /\ sVotes = << >>
  /\ currentVoteId = 1
  /\ sAvail = << >>
  /\ currentAvailabilityId = 1
  /\ dispatched = << >>
  /\ missed = [votes |-> FALSE, availability |-> FALSE]
  /\ trial = NoTrial
  /\ conn = NoConn
  /\ trip = NoTrip

\* ------------------------------------------------------------- client: mutations
InFlight(m) == mutations[m].pc \in {"sent", "served", "rolledBack"}
OnVotes(m) == mutations[m].kind = "vote"
OnAvailability(m) == mutations[m].kind \in {"availability", "batch"}

\* Each call of mutate() creates a mutation of its own: the next fresh one.
NextMutation(m) ==
  /\ mutations[m].pc = "fresh"
  /\ \A k \in Slots : k < m => mutations[k].pc # "fresh"

Started(kind, variables, cache, same) ==
  [pc |-> "sent", kind |-> kind, variables |-> variables,
   context |-> Snapshot(cache, {mutations[k].context : k \in same}),
   before |-> cache, earlier |-> same, outcome |-> "none", invalidated |-> FALSE]

\* vote(): voteMutation.onMutate, then mutationFn sends the POST.
Vote(m, optionId, emoji, tick) ==
  /\ NextMutation(m)
  /\ votesQuery' = cancelQueries(votesQuery)
  /\ votesCache' = VoteOptimistic(votesCache, optionId, emoji, tick)
  /\ mutations' = [mutations EXCEPT ![m] =
       Started("vote", [optionId |-> optionId, emoji |-> emoji], votesCache,
               {k \in Slots : InFlight(k) /\ OnVotes(k)})]
  /\ UNCHANGED << setting, availCache, availQuery >>
  /\ UNCHANGED << wsVars, serverVars >>

\* setAvailability(): setAvailabilityMutation.onMutate, then the POST.
SetAvailability(m, date, available, tick) ==
  /\ NextMutation(m)
  /\ availQuery' = cancelQueries(availQuery)
  /\ availCache' = AvailabilityOptimistic(availCache, date, available, tick, tz)
  /\ mutations' = [mutations EXCEPT ![m] =
       Started("availability", [date |-> date, available |-> available], availCache,
               {k \in Slots : InFlight(k) /\ OnAvailability(k)})]
  /\ UNCHANGED << setting, votesCache, votesQuery >>
  /\ UNCHANGED << wsVars, serverVars >>

\* setBatchAvailability(): setBatchAvailabilityMutation.onMutate, then the POST.
SetBatchAvailability(m, dates, tick) ==
  /\ NextMutation(m)
  /\ availQuery' = cancelQueries(availQuery)
  /\ availCache' = BatchOptimistic(availCache, dates, tick, tz)
  /\ mutations' = [mutations EXCEPT ![m] =
       Started("batch", dates, availCache,
               {k \in Slots : InFlight(k) /\ OnAvailability(k)})]
  /\ UNCHANGED << setting, votesCache, votesQuery >>
  /\ UNCHANGED << wsVars, serverVars >>

\* onError of the three mutations: the remote write failed (request lost or
\* refused before the store changed, or the response lost after it).
OnError(m) ==
  /\ mutations[m].pc \in {"sent", "served"}
  /\ IF OnVotes(m)
     THEN /\ votesCache' = Rollback(votesCache, mutations[m].context)
          /\ UNCHANGED availCache
     ELSE /\ availCache' = Rollback(availCache, mutations[m].context)
          /\ UNCHANGED votesCache
  /\ mutations' = [mutations EXCEPT ![m].pc = "rolledBack", ![m].outcome = "error"]
  /\ UNCHANGED << setting, votesQuery, availQuery >>
  /\ UNCHANGED << wsVars, serverVars >>

\* onSettled of the three mutations, after success or after onError; the
\* mutation is over.
OnSettled(m) ==
  /\ mutations[m].pc \in {"served", "rolledBack"}
  /\ IF OnVotes(m)
     THEN /\ votesQuery' = invalidateQueries(votesQuery)
          /\ UNCHANGED availQuery
     ELSE /\ availQuery' = invalidateQueries(availQuery)
          /\ UNCHANGED votesQuery
  /\ mutations' = [mutations EXCEPT ![m] =
       [FreshMutation EXCEPT
          !.pc = "settled",
          !.kind = mutations[m].kind,
          !.outcome = IF mutations[m].pc = "served" THEN "success" ELSE "error",
          !.invalidated = IF OnVotes(m) THEN votesQuery'.st = "requested"
                          ELSE availQuery'.st = "requested"]]
  /\ UNCHANGED << setting, votesCache, availCache >>
  /\ UNCHANGED << wsVars, serverVars >>

\* ------------------------------------------------------------- server
\* broadcastToTrip, lines 108-117: one frame to every registered open socket
\* of the trip; this client's socket is one of them once it has joined.
broadcastToTrip(wire, type) == IF joined THEN Append(wire, type) ELSE wire

\* POST /api/trips/:tripId/votes, lines 181-205.
HandlePostVote(data) ==
  /\ sVotes' = PostVote(sVotes, currentVoteId, data)
  /\ currentVoteId' = currentVoteId + 1
  /\ wsWire' = broadcastToTrip(wsWire, "vote_update")
  /\ UNCHANGED << sAvail, currentAvailabilityId >>
  /\ UNCHANGED << wsMessages, lastProcessedIndex, joined, dispatched >>

\* POST /api/trips/:tripId/availability, lines 231-251.
HandlePostAvailability(data) ==
  /\ sAvail' = setDateAvailability(sAvail, currentAvailabilityId, data)
  /\ currentAvailabilityId' = currentAvailabilityId + 1
  /\ wsWire' = broadcastToTrip(wsWire, "availability_update")
  /\ UNCHANGED << sVotes, currentVoteId >>
  /\ UNCHANGED << wsMessages, lastProcessedIndex, joined, dispatched >>

\* POST /api/trips/:tripId/availability/batch.
HandlePostBatch(user, dates) ==
  /\ sAvail' = PostBatch(sAvail, currentAvailabilityId, user, dates, 1)
  /\ currentAvailabilityId' = currentAvailabilityId + Len(dates)
  /\ wsWire' = broadcastToTrip(wsWire, "availability_batch_update")
  /\ UNCHANGED << sVotes, currentVoteId >>
  /\ UNCHANGED << wsMessages, lastProcessedIndex, joined, dispatched >>

\* The behaviours are cut where the store's id counters would pass their
\* bounds: the ids the POST of mutation m takes are still within them.
IdsLeft(m) ==
  CASE mutations[m].kind = "vote" -> currentVoteId <= MaxVoteId
    [] mutations[m].kind = "availability" -> currentAvailabilityId <= MaxAvailabilityId
    [] OTHER -> currentAvailabilityId + Len(mutations[m].variables) <= MaxAvailabilityId + 1

\* The server handles the POST of mutation m (mutationFn's request body).
ServePost(m) ==
  /\ mutations[m].pc = "sent"
  /\ IdsLeft(m)
  /\ CASE mutations[m].kind = "vote" ->
            HandlePostVote([userId |-> userId,
                            optionId |-> mutations[m].variables.optionId,
                            emoji |-> mutations[m].variables.emoji])
       [] mutations[m].kind = "availability" ->
            HandlePostAvailability(
              [userId |-> userId,
               date |-> parseDate(toISOString(mutations[m].variables.date)),
               available |-> mutations[m].variables.available])
       [] OTHER -> HandlePostBatch(userId, mutations[m].variables)
  /\ mutations' = [mutations EXCEPT ![m].pc = "served"]
  /\ UNCHANGED << setting, votesCache, availCache, votesQuery, availQuery, missed >>

\* A write of another session that this client's socket is not told about.
Written(collection) == [missed EXCEPT ![collection] = @ \/ ~joined]

\* A POST of another session (another participant, or this user elsewhere).
OtherPostVote(user, optionId, emoji) ==
  /\ HandlePostVote([userId |-> user, optionId |-> optionId, emoji |-> emoji])
  /\ missed' = Written("votes")
  /\ UNCHANGED clientVars

OtherPostAvailability(user, date, available) ==
  /\ HandlePostAvailability([userId |-> user, date |-> date, available |-> available])
  /\ missed' = Written("availability")
  /\ UNCHANGED clientVars

\* GET /api/trips/:tripId/votes, lines 172-179.
ServeGetVotes ==
  /\ votesQuery.st = "requested"
  /\ votesQuery' = [st |-> "responded", data |-> WireVotes(sVotes)]
  /\ missed' = [missed EXCEPT !.votes = FALSE]
  /\ UNCHANGED << setting, votesCache, availCache, availQuery, mutations >>
  /\ UNCHANGED << wsVars, sVotes, currentVoteId, sAvail, currentAvailabilityId >>

\* GET /api/trips/:tripId/availability, lines 253-260.
ServeGetAvailability ==
  /\ availQuery.st = "requested"
  /\ availQuery' = [st |-> "responded", data |-> WireAvailabilities(sAvail)]
  /\ missed' = [missed EXCEPT !.availability = FALSE]
  /\ UNCHANGED << setting, votesCache, availCache, votesQuery, mutations >>
  /\ UNCHANGED << wsVars, sVotes, currentVoteId, sAvail, currentAvailabilityId >>

\* ------------------------------------------------------------- client: queries
\* The response of a fetch arrives: the query data is replaced by it.
VotesFetched ==
  /\ votesQuery.st = "responded"
  /\ votesCache' = Loaded(votesQuery.data)
  /\ votesQuery' = IdleQuery
  /\ UNCHANGED << setting, availCache, availQuery, mutations >>
  /\ UNCHANGED << wsVars, serverVars >>

AvailabilityFetched ==
  /\ availQuery.st = "responded"
  /\ availCache' = Loaded(availQuery.data)
  /\ availQuery' = IdleQuery
  /\ UNCHANGED << setting, votesCache, votesQuery, mutations >>
  /\ UNCHANGED << wsVars, serverVars >>

\* ------------------------------------------------------------- WebSocket
\* join_trip, lines 28-46: the socket is registered, then user_joined is
\* broadcast to the trip (the joining socket included).
JoinTrip ==
  /\ ~joined
  /\ joined' = TRUE
  /\ wsWire' = Append(wsWire, "user_joined")
  /\ UNCHANGED << wsMessages, lastProcessedIndex, dispatched >>
  /\ UNCHANGED << clientVars, serverVars >>

\* A frame that is not JSON.
Unparseable == "{not json"

\* A variant that takes every frame for a message.
ParsesAnything(frame) == TRUE

\* JSON.parse(event.data), line 36, returns a message; it throws on a frame
\* that is not JSON.  Frames stand for the type of the message they carry.
JSONParses(frame) == frame # Unparseable

\* ws.onmessage, useWebSocket lines 34-46: the parsed frame is appended to
\* messages; a frame that does not parse is logged to the console and dropped.
OnMessage ==
  /\ wsWire # << >>
  /\ IF JSONParses(Head(wsWire))
     THEN /\ wsMessages' = Append(wsMessages, Head(wsWire))
          /\ dispatched' = Append(dispatched, 0)
     ELSE UNCHANGED << wsMessages, dispatched >>
  /\ wsWire' = Tail(wsWire)
  /\ UNCHANGED << lastProcessedIndex, joined >>
  /\ UNCHANGED << clientVars, serverVars >>

\* The collections one run of the effect invalidates.
Staled(newMessages) ==
  UNION {Invalidates(newMessages[i]) : i \in 1..Len(newMessages)}

\* The WebSocket effect of useTripState, lines 365-427; it runs when
\* wsMessages.length has changed.  The queries of the collections other than
\* votes and availability are not part of the state.
DispatchRun ==
  LET newMessages == newMessagesFrom(wsMessages, lastProcessedIndex)
      first == Len(wsMessages) - Len(newMessages)
      hit == Staled(newMessages)
  IN  /\ Len(wsMessages) # lastProcessedIndex + 1
      /\ votesQuery' = IF "votes" \in hit THEN invalidateQueries(votesQuery)
                       ELSE votesQuery
      /\ availQuery' = IF "availability" \in hit THEN invalidateQueries(availQuery)
                       ELSE availQuery
      /\ lastProcessedIndex' = Len(wsMessages) - 1
      /\ dispatched' = [i \in 1..Len(wsMessages) |->
                          IF i > first THEN dispatched[i] + 1 ELSE dispatched[i]]
      /\ UNCHANGED << votesCache, availCache, mutations >>
      /\ UNCHANGED << wsWire, wsMessages, joined >>
      /\ UNCHANGED serverVars

DispatchEffect == DispatchRun /\ UNCHANGED setting

\* ------------------------------------------------------------- specification
\* CalendarMatrix, the caller of the availability mutations: the calendar
\* days on show, the instant the single path sends for a day (local midnight,
\* `new Date(year, month, day)`) and the one the batch path sends (noon UTC,
\* `new Date(Date.UTC(year, month - 1, day, 12, 0, 0))`).
CalendarDays == {0}
LocalMidnight(day, zone) == day * 24 - zone
NoonUTC(day) == day * 24 + 12

Batches ==
  UNION {[1..n -> [date : {NoonUTC(d) : d \in CalendarDays}, available : BOOLEAN]] :
           n \in 0..MaxBatch}

OtherVote ==
  \E u \in Users \ {userId}, o \in Options, e \in Emojis :
    currentVoteId <= MaxVoteId /\ OtherPostVote(u, o, e)

OtherAvailability ==
  \E u \in Users \ {userId}, d \in CalendarDays, a \in BOOLEAN :
    currentAvailabilityId <= MaxAvailabilityId
      /\ OtherPostAvailability(u, NoonUTC(d), a)

\* This client, the server and the push channel.  The votes and the
\* availability collection share no query key, no store and no event type; a
\* behaviour exercises the one `focus` names.
ClientNext ==
  \/ \E m \in Slots, o \in Options, e \in Emojis, t \in Ticks :
       focus = "votes" /\ Vote(m, o, e, t)
  \/ \E m \in Slots, d \in CalendarDays, a \in BOOLEAN, t \in Ticks :
       focus = "availability" /\ SetAvailability(m, LocalMidnight(d, tz), a, t)
  \/ \E m \in Slots, ds \in Batches, t \in Ticks :
       focus = "availability" /\ SetBatchAvailability(m, ds, t)
  \/ \E m \in Slots : ServePost(m)
  \/ \E m \in Slots : OnError(m)
  \/ \E m \in Slots : OnSettled(m)
  \/ ServeGetVotes
  \/ ServeGetAvailability
  \/ VotesFetched
  \/ AvailabilityFetched
  \/ JoinTrip
  \/ OnMessage
  \/ DispatchEffect

\* ... and the other participants' sessions.
SyncNext ==
  \/ ClientNext
  \/ focus = "votes" /\ OtherVote
  \/ focus = "availability" /\ OtherAvailability

Init == SyncInit

Next == SyncNext

Spec == Init /\ [][Next]_vars

\* ------------------------------------------------------------- rollback
\* The step in which mutation m's onError runs.
ErrorStep(m) ==
  mutations[m].pc \in {"sent", "served"} /\ mutations'[m].pc = "rolledBack"

\* The cache of mutation m's collection after the step.
CacheAfter(m) == IF OnVotes(m) THEN votesCache' ELSE availCache'

\* C2: whenever the remote write of a vote, set-availability or batch mutation
\* fails, the cache of its collection right after onError equals the snapshot
\* its onMutate took, whatever the cache was when the mutation started (loaded
\* or not yet loaded).
C2_RollbackExact ==
  [][\A m \in Slots : ErrorStep(m) => CacheAfter(m) = mutations[m].context]_vars

\* C3: when a mutation starts while another on the same collection is in
\* flight and the earlier one's optimistic change is in the (loaded) cache, its
\* rollback restores the cache value its own onMutate read, the earlier
\* mutation's change included.
C3_OwnSnapshot ==
  [][\A m \in Slots :
       (ErrorStep(m) /\ mutations[m].earlier # {} /\ mutations[m].before.loaded)
         => CacheAfter(m) = mutations[m].before]_vars

\* C3, the case reached: the second of two overlapping vote toggles has been
\* rolled back, the first is still in flight, and the first one's provisional
\* vote is in the cache while the second one's is not.
C3_Witness ==
  /\ mutations[1].pc = "sent" /\ mutations[1].kind = "vote"
  /\ mutations[2].pc = "rolledBack" /\ mutations[2].earlier = {1}
  /\ mutations[1].variables # mutations[2].variables
  /\ votesCache.loaded
  /\ \E i \in 1..Len(votesCache.data) :
       SameVote(votesCache.data[i], mutations[1].variables.optionId,
                mutations[1].variables.emoji)
  /\ ~\E i \in 1..Len(votesCache.data) :
       SameVote(votesCache.data[i], mutations[2].variables.optionId,
                mutations[2].variables.emoji)

\* ------------------------------------------------------------- dispatch once
\* C4: every event of the inbound log up to lastProcessedIndex has been
\* dispatched exactly once, and no later event has been dispatched yet.
C4_DispatchedOnce ==
  /\ Len(dispatched) = Len(wsMessages)
  /\ lastProcessedIndex < Len(wsMessages)
  /\ \A i \in 1..Len(wsMessages) :
       dispatched[i] = IF i <= lastProcessedIndex + 1 THEN 1 ELSE 0

\* C4, the case reached: three events are in the log, a write's event among
\* them, and the effect has dispatched all three.
C4_Witness ==
  /\ Len(wsMessages) = 3
  /\ lastProcessedIndex = 2
  /\ wsWire = << >>
  /\ \E i \in 1..3 : wsMessages[i] # "user_joined"

\* ------------------------------------------------------------- convergence
\* No vote or availability mutation is in flight and no fetch is under way.
Settled ==
  /\ \A m \in Slots : ~InFlight(m)
  /\ votesQuery.st = "idle"
  /\ availQuery.st = "idle"

\* Every event the server has sent has arrived and has been dispatched.
EventsDrained ==
  /\ wsWire = << >>
  /\ lastProcessedIndex = Len(wsMessages) - 1

Converged ==
  /\ votesCache = Loaded(WireVotes(sVotes))
  /\ availCache = Loaded(WireAvailabilities(sAvail))

FairSpec ==
  /\ Init
  /\ [][ClientNext]_vars
  /\ \A m \in Slots : WF_vars(ServePost(m) \/ OnError(m) \/ OnSettled(m))

\* C7: every started mutation is eventually over with its collection's query
\* invalidated (refetching); the invalidation is issued by onSettled, which
\* after a failed write runs only once onError has rolled the cache back.
C7_EventuallyInvalidated ==
  /\ \A m \in Slots :
       InFlight(m) ~> (mutations[m].pc = "settled" /\ mutations[m].invalidated)
  /\ [][\A m \in Slots :
          (mutations[m].pc # "settled" /\ mutations'[m].pc = "settled")
            => /\ mutations[m].pc \in {"served", "rolledBack"}
               /\ mutations'[m].outcome = "error" <=> mutations[m].pc = "rolledBack"
               /\ IF OnVotes(m) THEN votesQuery'.st = "requested"
                  ELSE availQuery'.st = "requested"]_vars

\* C7, the case reached: one mutation is over after a failed write and a
\* rollback, another after a successful one, both with the query invalidated.
C7_Witness ==
  /\ mutations[1].pc = "settled" /\ mutations[1].outcome = "error"
  /\ mutations[1].invalidated
  /\ mutations[2].pc = "settled" /\ mutations[2].outcome = "success"
  /\ mutations[2].invalidated

\* ------------------------------------------------------------- overwrite
\* The cache after the acting user sets one calendar day through one path.
SetDay(path, cache, day, available) ==
  IF path = "single"
  THEN AvailabilityOptimistic(cache, LocalMidnight(day, tz), available, 1, tz)
  ELSE BatchOptimistic(cache, << [date |-> NoonUTC(day), available |-> available] >>,
                       1, tz)

OfDay(a, day) ==
  a.user_id = userId /\ toDateString(parseDate(a.date), tz) = day

\* C8: from any loaded availability cache the page can hold, setting one day
\* for the acting user twice with different values (through either path each
\* time) leaves exactly one record of that user and day, with the second value,
\* and the records of other users and days as they were.
C8_OverwriteLeavesOne ==
  availCache.loaded =>
    \A day \in CalendarDays, b \in BOOLEAN, p1, p2 \in {"single", "batch"} :
      LET second == SetDay(p2, SetDay(p1, availCache, day, b), day, ~b).data
          hits == {i \in 1..Len(second) : OfDay(second[i], day)}
      IN  /\ Cardinality(hits) = 1
          /\ \A i \in hits : second[i].available = ~b
          /\ filter(second, LAMBDA a : ~OfDay(a, day))
               = filter(availCache.data, LAMBDA a : ~OfDay(a, day))

\* ------------------------------------------------------------- the store alone
\* The part of the state a behaviour of the store alone, or of a pure
\* function, leaves as the page finds it.
Untouched ==
  /\ votesCache = Undefined /\ availCache = Undefined
  /\ votesQuery = IdleQuery /\ availQuery = IdleQuery
  /\ mutations = [m \in Slots |-> FreshMutation]
  /\ wsWire = << >> /\ wsMessages = << >> /\ lastProcessedIndex = -1
  /\ joined = FALSE /\ dispatched = << >>
  /\ sVotes = << >> /\ currentVoteId = 1
  /\ sAvail = << >> /\ currentAvailabilityId = 1
  /\ missed = [votes |-> FALSE, availability |-> FALSE]

ServerInit ==
  /\ focus \in {"votes", "availability"}
  /\ tz = 0
  /\ trial = NoTrial
  /\ conn = NoConn
  /\ trip = NoTrip
  /\ Untouched

\* POSTs of any session, in any order; each handler runs to its end before
\* the next request's handler starts.
ServerPostVote ==
  \E u \in Users, o \in AllOptions, e \in Emojis :
    focus = "votes" /\ currentVoteId <= MaxPosts /\ OtherPostVote(u, o, e)

ServerPostAvailability ==
  \E u \in Users, d \in Instants, a \in BOOLEAN :
    focus = "availability" /\ currentAvailabilityId <= MaxPosts
      /\ OtherPostAvailability(u, d, a)

ServerNext == ServerPostVote \/ ServerPostAvailability

SpecServer == ServerInit /\ [][ServerNext]_vars

\* C9: no two votes in the store share (userId, optionId, emoji).
C9_VoteUnique ==
  \A i, j \in 1..Len(sVotes) :
    (/\ sVotes[i].userId = sVotes[j].userId
     /\ sVotes[i].optionId = sVotes[j].optionId
     /\ sVotes[i].emoji = sVotes[j].emoji) => i = j

\* C9, the case reached: after three POSTs by two users the store holds the
\* first vote and the third, which has replaced the second.
C9_Witness ==
  /\ currentVoteId = 4
  /\ Len(sVotes) = 2
  /\ sVotes[1].id = 1 /\ sVotes[2].id = 3
  /\ sVotes[1].userId # sVotes[2].userId

\* The calendar day (UTC) of a stored instant.
dayOf(t) == toISOString(t).day

\* C10: no two availability records in the store share (userId, calendar day).
C10_AvailabilityUniquePerDay ==
  \A i, j \in 1..Len(sAvail) :
    (sAvail[i].userId = sAvail[j].userId /\ dayOf(sAvail[i].date) = dayOf(sAvail[j].date))
      => i = j

\* ------------------------------------------------------------- the toggle alone
\* Loaded vote caches as a fetch delivers them: up to MaxCached votes with the
\* store's ids.
VoteCaches ==
  UNION {{Loaded(s) : s \in {f \in [1..n -> [id : 1..MaxCached, user_id : Users,
                                             option_id : AllOptions, emoji : Emojis]] :
                               \A i \in 1..n : f[i].id = i}} : n \in 0..MaxCached}

VotesFor(cache, optionId, emoji) ==
  {i \in 1..Len(cache.data) : SameVote(cache.data[i], optionId, emoji)}

OtherVotes(cache, optionId, emoji) ==
  filter(cache.data, LAMBDA v : ~SameVote(v, optionId, emoji))

ToggleInit ==
  /\ focus = "votes"
  /\ tz = 0
  /\ conn = NoConn
  /\ trip = NoTrip
  /\ \E base \in VoteCaches, o \in AllOptions, e \in Emojis :
       /\ VotesFor(base, o, e) = {}
       /\ trial = [kind |-> "toggle", base |-> base, cache |-> base,
                   optionId |-> o, emoji |-> e, k |-> 0]
  /\ Untouched

\* vote() once more for the same triple, before any refetch has landed; the
\* clock has moved on since the call before.
Toggle ==
  /\ trial.k < MaxToggles
  /\ trial' = [trial EXCEPT
                 !.cache = VoteOptimistic(trial.cache, trial.optionId, trial.emoji,
                                          trial.k + 1),
                 !.k = trial.k + 1]
  /\ UNCHANGED << focus, tz, conn, trip, votesCache, availCache, votesQuery, availQuery,
                  mutations >>
  /\ UNCHANGED << wsVars, serverVars >>

SpecToggle == ToggleInit /\ [][Toggle]_vars

\* C1: after k votes for one triple in immediate succession, from a loaded
\* cache without a vote for it, the cache holds k mod 2 votes for the triple and
\* the votes for every other triple as before.
C1_ToggleParity ==
  trial.kind = "toggle" =>
    /\ Cardinality(VotesFor(trial.cache, trial.optionId, trial.emoji)) = trial.k % 2
    /\ OtherVotes(trial.cache, trial.optionId, trial.emoji) = trial.base.data

\* C1, the case reached: three votes for a triple, on a cache holding the
\* user's vote with another emoji on the same option and another user's vote
\* for the same option and emoji.
C1_Witness ==
  /\ trial.kind = "toggle"
  /\ trial.k = 3
  /\ Cardinality(VotesFor(trial.cache, trial.optionId, trial.emoji)) = 1
  /\ \E i, j \in 1..Len(trial.base.data) :
       /\ trial.base.data[i].user_id = userId
       /\ trial.base.data[i].option_id = trial.optionId
       /\ trial.base.data[j].user_id # userId
       /\ trial.base.data[j].option_id = trial.optionId
       /\ trial.base.data[j].emoji = trial.emoji

\* ------------------------------------------------------------- batch and single
\* Loaded availability caches as a fetch delivers them: up to MaxCached records
\* with the store's ids; the acting user's with either value, the others'
\* (which no update touches) available.
AvailabilityCaches ==
  UNION {{Loaded(s) : s \in {f \in [1..n -> [id : 1..MaxCached, user_id : Users,
                                             date : {toISOString(t) : t \in Instants},
                                             available : BOOLEAN]] :
                               \A i \in 1..n :
                                 /\ f[i].id = i
                                 /\ f[i].user_id # userId => f[i].available}} :
           n \in 0..MaxCached}

Pairs ==
  UNION {[1..n -> [date : Instants, available : BOOLEAN]] : n \in 0..MaxBatch}

\* A cache without the ids.
StripIds(cache) ==
  [i \in 1..Len(cache.data) |->
     [user_id |-> cache.data[i].user_id, date |-> cache.data[i].date,
      available |-> cache.data[i].available]]

BatchInit ==
  /\ focus = "availability"
  /\ tz \in TzOffsets
  /\ conn = NoConn
  /\ trip = NoTrip
  /\ \E old \in AvailabilityCaches, dates \in Pairs :
       trial = [kind |-> "batch", old |-> old, dates |-> dates, i |-> 0,
                single |-> old, done |-> FALSE, batch |-> old]
  /\ Untouched

\* setAvailability() for the next pair of the list; the clock has moved on
\* since the call before.
ApplySingle ==
  /\ trial.i < Len(trial.dates)
  /\ trial' = [trial EXCEPT
                 !.single = AvailabilityOptimistic(trial.single,
                              trial.dates[trial.i + 1].date,
                              trial.dates[trial.i + 1].available, trial.i + 1, tz),
                 !.i = trial.i + 1]
  /\ UNCHANGED << focus, tz, conn, trip, votesCache, availCache, votesQuery, availQuery,
                  mutations >>
  /\ UNCHANGED << wsVars, serverVars >>

\* setBatchAvailability() for the whole list.
ApplyBatch ==
  /\ ~trial.done
  /\ trial' = [trial EXCEPT !.batch = BatchOptimistic(trial.old, trial.dates, 1, tz),
                            !.done = TRUE]
  /\ UNCHANGED << focus, tz, conn, trip, votesCache, availCache, votesQuery, availQuery,
                  mutations >>
  /\ UNCHANGED << wsVars, serverVars >>

BatchNext == ApplySingle \/ ApplyBatch

SpecBatch == BatchInit /\ [][BatchNext]_vars

\* C5: once every pair has gone through the single path in order and the
\* list through the batch path, from the same loaded cache, the two caches are
\* equal up to the provisional ids.
C5_BatchEqualsSingles ==
  (trial.kind = "batch" /\ trial.done /\ trial.i = Len(trial.dates))
    => StripIds(trial.batch) = StripIds(trial.single)

\* C5, the case reached: a list of two pairs that name one local day at two
\* instants with different values, on a non-empty cache, through both paths.
C5_Witness ==
  /\ trial.kind = "batch" /\ trial.done /\ trial.i = 2 /\ Len(trial.dates) = 2
  /\ trial.dates[1].date # trial.dates[2].date
  /\ toDateString(trial.dates[1].date, tz) = toDateString(trial.dates[2].date, tz)
  /\ trial.dates[1].available # trial.dates[2].available
  /\ Len(trial.old.data) >= 1
  /\ Len(trial.batch.data) = Len(trial.old.data) + 1
  /\ StripIds(trial.batch) = StripIds(trial.single)

\* ------------------------------------------------------------- server toggle
\* The store a toggling endpoint would leave: the vote of the triple removed
\* when it is stored, one vote added when it is not, the rest kept.
Toggled(votes, id, user, optionId, emoji) ==
  LET Hit(v) == v.userId = user /\ v.optionId = optionId /\ v.emoji = emoji
  IN  IF \E i \in 1..Len(votes) : Hit(votes[i])
      THEN filter(votes, LAMBDA v : ~Hit(v))
      ELSE Append(votes, [id |-> id, userId |-> user, optionId |-> optionId,
                          emoji |-> emoji])

\* C11: every POST /votes leaves the store as a toggle of some (user, option,
\* emoji) leaves it: the stored vote of the triple removed and none added, or
\* one vote added, and every other vote kept.
C11_ServerToggles ==
  [][currentVoteId' # currentVoteId =>
       \E u \in Users, o \in AllOptions, e \in Emojis :
         sVotes' = Toggled(sVotes, currentVoteId, u, o, e)]_vars

\* ------------------------------------------------------------- the dispatcher alone
\* The event types of the protocol, and one the dispatcher does not know.
EventTypes ==
  {"new_message", "vote_update", "availability_update", "availability_batch_update",
   "user_joined", "user_left", "preferences_update", "options_generated", "typing"}

\* Both collections are loaded and nothing is being fetched; frames of any
\* type, and frames that are not JSON, arrive.  `trial` keeps what was sent
\* and what the last run of the effect dispatched and invalidated.
DispatchInit ==
  /\ focus = "events"
  /\ tz = 0
  /\ conn = NoConn
  /\ trip = NoTrip
  /\ trial = [kind |-> "dispatch", sent |-> << >>, run |-> << >>, stale |-> {}]
  /\ votesCache = Loaded(<< >>) /\ availCache = Loaded(<< >>)
  /\ votesQuery = IdleQuery /\ availQuery = IdleQuery
  /\ mutations = [m \in Slots |-> FreshMutation]
  /\ wsWire = << >> /\ wsMessages = << >> /\ lastProcessedIndex = -1
  /\ joined = TRUE /\ dispatched = << >>
  /\ sVotes = << >> /\ currentVoteId = 1
  /\ sAvail = << >> /\ currentAvailabilityId = 1
  /\ missed = [votes |-> FALSE, availability |-> FALSE]

\* The server (or whatever sits on the path) sends a frame to the socket.
SendFrame(frame) ==
  /\ Len(trial.sent) < MaxFrames
  /\ wsWire' = Append(wsWire, frame)
  /\ trial' = [trial EXCEPT !.sent = Append(trial.sent, frame)]
  /\ UNCHANGED << focus, tz, conn, trip, votesCache, availCache, votesQuery, availQuery,
                  mutations >>
  /\ UNCHANGED << wsMessages, lastProcessedIndex, joined, dispatched >>
  /\ UNCHANGED serverVars

\* The effect, with a record of what the run dispatched and invalidated.
DispatchObserved ==
  /\ DispatchRun
  /\ trial' = [trial EXCEPT
                 !.run = newMessagesFrom(wsMessages, lastProcessedIndex),
                 !.stale = Staled(newMessagesFrom(wsMessages, lastProcessedIndex))]
  /\ UNCHANGED << focus, tz, conn, trip >>

DispatchNext ==
  \/ \E frame \in EventTypes \cup {Unparseable} : SendFrame(frame)
  \/ OnMessage
  \/ DispatchObserved

SpecDispatch == DispatchInit /\ [][DispatchNext]_vars

\* The mapping table of the claim.
TableOf(type) ==
  IF type = "new_message" THEN {"messages", "trip"}
  ELSE IF type = "vote_update" THEN {"votes"}
  ELSE IF type \in {"availability_update", "availability_batch_update"}
       THEN {"availability"}
  ELSE IF type \in {"user_joined", "user_left"} THEN {"participants"}
  ELSE IF type = "preferences_update" THEN {"missing-preferences", "participants"}
  ELSE IF type = "options_generated" THEN {"options", "messages", "trip"}
  ELSE {}

\* C12: a run of the effect invalidates exactly the collections the table
\* gives for the events it dispatches (none for an event of another type),
\* refetches the votes or availability query only if the table names it,
\* changes no cache and moves the processed offset to the end of the log.
C12_TableExact ==
  [][lastProcessedIndex' # lastProcessedIndex =>
       LET new == SubSeq(wsMessages, lastProcessedIndex + 2, Len(wsMessages))
           table == UNION {TableOf(new[i]) : i \in 1..Len(new)}
       IN  /\ trial'.stale = table
           /\ votesQuery' # votesQuery => "votes" \in table
           /\ "votes" \in table => votesQuery'.st = "requested"
           /\ availQuery' # availQuery => "availability" \in table
           /\ "availability" \in table => availQuery'.st = "requested"
           /\ votesCache' = votesCache /\ availCache' = availCache
           /\ lastProcessedIndex' = Len(wsMessages) - 1]_vars

\* C12, the case reached: a run has dispatched an event of an unknown type
\* alone, a later run options_generated, which invalidated options, messages
\* and trip and neither votes nor availability.
C12_Witness ==
  /\ trial.kind = "dispatch"
  /\ wsMessages = << "typing", "options_generated" >>
  /\ dispatched = << 1, 1 >>
  /\ lastProcessedIndex = 1
  /\ trial.run = << "options_generated" >>
  /\ trial.stale = {"options", "messages", "trip"}
  /\ votesQuery.st = "idle" /\ availQuery.st = "idle"

\* The frames that have arrived, in order.
Arrived == SubSeq(trial.sent, 1, Len(trial.sent) - Len(wsWire))

\* C18: the log is the parseable frames that have arrived, in order; the
\* arrival of a frame that does not parse changes neither the log, the
\* processed offset, a query nor a cache; and every logged event up to the
\* processed offset has been dispatched once.
C18_MalformedDropped ==
  /\ [](trial.kind = "dispatch" =>
          /\ wsMessages = SelectSeq(Arrived, LAMBDA f : f # Unparseable)
          /\ \A i \in 1..Len(wsMessages) :
               dispatched[i] = IF i <= lastProcessedIndex + 1 THEN 1 ELSE 0)
  /\ [][(wsWire # << >> /\ wsWire' = Tail(wsWire) /\ Head(wsWire) = Unparseable)
          => UNCHANGED << wsMessages, lastProcessedIndex, dispatched, votesQuery,
                          availQuery, votesCache, availCache >>]_vars

\* C18, the case reached: a frame that does not parse arrived first, then a
\* vote_update, which is in the log alone, dispatched, with the votes query
\* refetching.
C18_Witness ==
  /\ trial.kind = "dispatch"
  /\ trial.sent = << Unparseable, "vote_update" >>
  /\ wsWire = << >>
  /\ wsMessages = << "vote_update" >>
  /\ lastProcessedIndex = 0
  /\ dispatched = << 1 >>
  /\ votesQuery.st = "requested"

\* ------------------------------------------------------------- the connection manager
\* useWebSocket, part_005.  `conn` holds one instance of the hook:
\*   tripId, user      the props
\*   mounted           the component is mounted
\*   socket            the `socket` state: 0 for null, else the socket
\*   isConnected       the `isConnected` state
\*   messages          the `messages` state, each entry the socket it came from
\*   attempts          reconnectAttempts.current
\*   socks             the WebSockets created so far, each with its readyState,
\*                     the tripId of the closure it was created in and the
\*                     frames sent on it
\*   timers            the pending setTimeout(connect, delay) calls
\*   cleanup           the cleanup the last run of the effect returned: whether
\*                     there is one, and the tripId and `socket` it closed over
\*   changes, streak, thrown   history: tripId changes so far, reconnects
\*                     scheduled since the last open, an exception thrown
Trips == {"t1", "t2"}

maxReconnectAttempts == 5

\* A variant that reconnects with no limit.
AlwaysReconnect(attempts) == TRUE

\* reconnectAttempts.current < maxReconnectAttempts, line 54
MayReconnect(attempts) == attempts < maxReconnectAttempts

\* A variant with a fixed delay.
ConstantBackoff(attempts) == 1000

\* 1000 * reconnectAttempts.current, line 56
Backoff(attempts) == 1000 * attempts

\* A variant that looks at the trip alone.
GuardTripOnly(tripId, user) == tripId # ""

\* the negation of `if (!tripId || !userId) return;`, line 12
EffectGuard(tripId, user) == tripId # "" /\ user # 0

\* A socket after its close event: it sends nothing, receives nothing and
\* fires no further event, so what it was is no longer kept.
ClosedSocket == [st |-> "closed", trip |-> "", out |-> << >>]

\* new WebSocket(wsUrl), lines 14-19, in a closure over tripId
connect(c, tripId) ==
  [c EXCEPT !.socks = Append(@, [st |-> "connecting", trip |-> tripId, out |-> << >>])]

\* ws.send(frame): the frame is sent on an open socket, dropped on a closing or
\* closed one, and send throws on a connecting one.
send(c, s, frame) ==
  IF c.socks[s].st = "open" THEN [c EXCEPT !.socks[s].out = Append(@, frame)]
  ELSE IF c.socks[s].st = "connecting" THEN [c EXCEPT !.thrown = TRUE]
  ELSE c

\* ws.close()
close(c, s) ==
  IF c.socks[s].st \in {"connecting", "open", "errored"}
  THEN [c EXCEPT !.socks[s].st = "closing"]
  ELSE c

\* The body of the effect, lines 12-76, run in a render whose props are
\* c.tripId and c.user and whose `socket` state is c.socket.
RunEffect(c) ==
  IF EffectGuard(c.tripId, c.user)
  THEN [connect(c, c.tripId) EXCEPT
          !.cleanup = [armed |-> TRUE, trip |-> c.tripId, socket |-> c.socket]]
  ELSE [c EXCEPT !.cleanup = [armed |-> FALSE, trip |-> c.tripId, socket |-> 0]]

\* The cleanup of lines 67-76, with the `socket` its closure holds.
RunCleanup(c) ==
  IF c.cleanup.armed /\ c.cleanup.socket # 0
  THEN close(send(c, c.cleanup.socket, << "leave_trip", c.cleanup.trip >>),
             c.cleanup.socket)
  ELSE c

\* The hook before its first effect, lines 5-9.
FreshHook(tripId, user) ==
  [kind |-> "socket", tripId |-> tripId, user |-> user, mounted |-> TRUE,
   socket |-> 0, isConnected |-> FALSE, messages |-> << >>, attempts |-> 0,
   socks |-> << >>, timers |-> << >>,
   cleanup |-> [armed |-> FALSE, trip |-> tripId, socket |-> 0],
   changes |-> 0, streak |-> 0, thrown |-> FALSE]

\* The component mounts with a signed-in user or with the read-only sentinel.
SocketInit ==
  /\ focus = "socket"
  /\ tz = 0
  /\ trial = NoTrial
  /\ trip = NoTrip
  /\ \E user \in {0, userId} : conn = RunEffect(FreshHook("t1", user))
  /\ votesCache = Undefined /\ availCache = Undefined
  /\ votesQuery = FetchingQuery /\ availQuery = FetchingQuery
  /\ mutations = [m \in Slots |-> FreshMutation]
  /\ wsWire = << >> /\ wsMessages = << >> /\ lastProcessedIndex = -1
  /\ joined = FALSE /\ dispatched = << >>
  /\ sVotes = << >> /\ currentVoteId = 1
  /\ sAvail = << >> /\ currentAvailabilityId = 1
  /\ missed = [votes |-> FALSE, availability |-> FALSE]

SocketFrame ==
  UNCHANGED << focus, tz, trial, trip, votesCache, availCache, votesQuery, availQuery,
               mutations, wsVars, serverVars >>

\* A state setter: React drops the update of an unmounted component.
setState(c, field, value) ==
  IF c.mounted THEN [c EXCEPT ![field] = value] ELSE c

\* ws.onopen, lines 20-32
OnOpen(s) ==
  /\ s <= Len(conn.socks)
  /\ conn.socks[s].st = "connecting"
  /\ LET opened == [conn EXCEPT !.socks[s].st = "open"]
         shown == setState(setState(opened, "isConnected", TRUE), "socket", s)
         reset == [shown EXCEPT !.attempts = 0, !.streak = 0]
     IN  conn' = send(reset, s, << "join_trip", conn.socks[s].trip >>)
  /\ SocketFrame

\* ws.onmessage, lines 34-46, for a frame that parses
OnSocketMessage(s) ==
  /\ s <= Len(conn.socks)
  /\ conn.socks[s].st = "open"
  /\ Len(conn.messages) < MaxInbound
  /\ conn' = setState(conn, "messages", Append(conn.messages, s))
  /\ conn.mounted
  /\ SocketFrame

\* ws.onerror, lines 60-62: the error is logged; the close event follows.
OnSocketError(s) ==
  /\ s <= Len(conn.socks)
  /\ conn.socks[s].st \in {"connecting", "open"}
  /\ conn' = [conn EXCEPT !.socks[s].st = "errored"]
  /\ SocketFrame

\* ws.onclose, lines 48-58
OnClose(s) ==
  /\ s <= Len(conn.socks)
  /\ conn.socks[s].st \in {"connecting", "open", "errored", "closing"}
  /\ LET closed == [conn EXCEPT !.socks[s] = ClosedSocket]
         shown == setState(setState(closed, "isConnected", FALSE), "socket", 0)
     IN  conn' = IF MayReconnect(shown.attempts)
                 THEN [shown EXCEPT
                         !.attempts = @ + 1,
                         !.streak = @ + 1,
                         !.timers = Append(@, [delay |-> Backoff(shown.attempts + 1),
                                               trip |-> conn.socks[s].trip])]
                 ELSE shown
  /\ SocketFrame

\* A timer of line 56 fires: connect(), in the closure it was created in.
TimerFires(i) ==
  /\ i \in 1..Len(conn.timers)
  /\ Len(conn.socks) < MaxSockets
  /\ conn' = [connect(conn, conn.timers[i].trip) EXCEPT
                !.timers = [j \in 1..(Len(conn.timers) - 1) |->
                              IF j < i THEN conn.timers[j] ELSE conn.timers[j + 1]]]
  /\ SocketFrame

\* The tripId prop changes: the cleanup of the last effect runs, then the
\* effect, lines 11-77, with the `socket` of this render.
ChangeTrip(tripId) ==
  /\ conn.mounted
  /\ conn.changes < MaxChanges
  /\ tripId # conn.tripId
  /\ Len(conn.socks) < MaxSockets
  /\ LET cleaned == RunCleanup(conn)
     IN  conn' = [RunEffect([cleaned EXCEPT !.tripId = tripId, !.socket = conn.socket])
                    EXCEPT !.changes = @ + 1]
  /\ SocketFrame

\* The component unmounts: the cleanup of the last effect runs.
Unmount ==
  /\ conn.mounted
  /\ conn' = [RunCleanup(conn) EXCEPT !.mounted = FALSE]
  /\ SocketFrame

SocketNext ==
  \/ \E s \in 1..MaxSockets : OnOpen(s)
  \/ \E s \in 1..MaxSockets : OnSocketMessage(s)
  \/ \E s \in 1..MaxSockets : OnSocketError(s)
  \/ \E s \in 1..MaxSockets : OnClose(s)
  \/ \E i \in 1..MaxSockets : TimerFires(i)
  \/ \E tripId \in Trips : ChangeTrip(tripId)
  \/ Unmount

SpecSocket == SocketInit /\ [][SocketNext]_vars

\* The sockets of the hook in one of the given readyStates.
SocksIn(c, states) == {s \in 1..Len(c.socks) : c.socks[s].st \in states}

\* C13: the counter never exceeds 5; a reconnect is scheduled only below 5,
\* and the k-th one scheduled since the last open is delayed k x 1000 ms and
\* leaves the counter at k; every open resets the counter to 0.
C13_LinearBackoff ==
  /\ [](conn.kind = "socket" => conn.attempts \in 0..5)
  /\ [][conn.kind = "socket" =>
          /\ Len(conn'.timers) > Len(conn.timers) =>
               /\ conn.attempts < 5
               /\ conn'.streak = conn.streak + 1
               /\ conn'.attempts = conn'.streak
               /\ conn'.timers[Len(conn'.timers)].delay = conn'.streak * 1000
          /\ (\E s \in SocksIn(conn, {"connecting"}) : conn'.socks[s].st = "open")
               => conn'.attempts = 0]_vars

\* C13, the case reached: the third reconnect in a row is pending, 3000 ms
\* out, after an open had reset the counter.
C13_Witness ==
  /\ conn.kind = "socket"
  /\ Len(conn.socks) = 5
  /\ conn.attempts = 3
  /\ conn.streak = 3
  /\ conn.timers = << [delay |-> 3000, trip |-> "t1"] >>

\* No reconnect is pending, no socket is connecting, and the counter is at
\* its maximum.
Exhausted ==
  /\ conn.attempts = maxReconnectAttempts
  /\ conn.timers = << >>
  /\ SocksIn(conn, {"connecting"}) = {}

\* C14: a close with the counter at 5 schedules nothing; once the retries are
\* exhausted the hook, as long as its props stay the same, creates no socket,
\* schedules nothing and, while mounted, shows isConnected = false; and nothing
\* is ever thrown.
C14_GivesUp ==
  /\ [](conn.kind = "socket" => ~conn.thrown)
  /\ [](conn.kind = "socket" /\ conn.mounted /\ conn.attempts > 0 => ~conn.isConnected)
  /\ [][conn.kind = "socket" /\ conn.attempts >= 5 /\ conn'.tripId = conn.tripId =>
          /\ Len(conn'.timers) <= Len(conn.timers)
          /\ conn'.attempts \in {0, 5}
          /\ Exhausted => /\ Exhausted'
                          /\ Len(conn'.socks) = Len(conn.socks)
                          /\ conn'.mounted => ~conn'.isConnected]_vars

\* C14, the case reached: the first socket and five reconnects have all
\* closed without an open, a further socket could still be created, and the
\* mounted hook shows isConnected = false.
C14_Witness ==
  /\ conn.kind = "socket"
  /\ Exhausted
  /\ conn.mounted
  /\ conn.streak = 5
  /\ Len(conn.socks) = 6
  /\ Len(conn.socks) < MaxSockets
  /\ SocksIn(conn, {"closed"}) = 1..6
  /\ ~conn.isConnected

\* C15: a teardown (unmount, or a change of tripId) with the hook's socket
\* open sends leave_trip for the trip that socket joined on that socket and
\* closes it.
C15_LeaveOnTeardown ==
  [][(/\ conn.kind = "socket"
      /\ conn.mounted
      /\ conn.socket # 0
      /\ conn.socks[conn.socket].st = "open"
      /\ (~conn'.mounted \/ conn'.tripId # conn.tripId))
       => LET s == conn.socket
          IN  /\ conn'.socks[s].out =
                   Append(conn.socks[s].out, << "leave_trip", conn.socks[s].trip >>)
              /\ conn'.socks[s].st \in {"closing", "closed"}]_vars

\* C16: at most one socket of the hook is connecting or open, and every
\* socket that is connecting or open belongs to the current trip.
C16_OneLiveSocket ==
  conn.kind = "socket" =>
    /\ Cardinality(SocksIn(conn, {"connecting", "open"})) <= 1
    /\ \A s \in SocksIn(conn, {"connecting", "open"}) :
         conn.mounted => conn.socks[s].trip = conn.tripId

\* C17: with userId = 0 the hook creates no socket, sends nothing, schedules
\* nothing, shows isConnected = false and logs no message.
C17_ReadOnlyNeverConnects ==
  (conn.kind = "socket" /\ conn.user = 0) =>
    /\ conn.socks = << >>
    /\ conn.timers = << >>
    /\ conn.socket = 0
    /\ ~conn.isConnected
    /\ conn.messages = << >>
    /\ ~conn.cleanup.armed

\* C17, the case reached: the read-only hook has been rendered for a second
\* trip and then unmounted.
C17_Witness ==
  /\ conn.kind = "socket"
  /\ conn.user = 0
  /\ conn.tripId = "t2"
  /\ conn.changes = 1
  /\ ~conn.mounted
  /\ conn.socks = << >>

\* ------------------------------------------------------------- the trip and its roadmap
\* STATE_ORDER, ContextDrawer.tsx lines 556-566
STATE_ORDER ==
  << "INIT", "COLLECTING_PREFS", "COLLECTING_DATES", "GENERATING_HIGH_OPTIONS",
     "VOTING_HIGH_LEVEL", "DETAILED_PLAN_READY", "GENERATING_DETAIL_OPTIONS",
     "HOTELS_FLIGHTS_READY", "BOOKED" >>

\* The states of stepDefinitions, lines 569-590
stepDefinitions ==
  << "COLLECTING_DATES", "VOTING_HIGH_LEVEL", "DETAILED_PLAN_READY",
     "HOTELS_FLIGHTS_READY" >>

\* Array.prototype.indexOf: the first index, from 0, or -1.
indexOf(array, x) ==
  LET hits == {i \in 1..Len(array) : array[i] = x}
  IN  IF hits = {} THEN 0 - 1
      ELSE (CHOOSE i \in hits : \A j \in hits : i <= j) - 1

\* A variant that counts the current milestone as completed.
getRoadmapStepsInclusive(state) ==
  [i \in 1..Len(stepDefinitions) |->
     [completed |-> indexOf(STATE_ORDER, stepDefinitions[i]) <= indexOf(STATE_ORDER, state),
      current |-> stepDefinitions[i] = state]]

\* getRoadmapSteps, lines 568-604, for tripContext.state = state
getRoadmapSteps(state) ==
  [i \in 1..Len(stepDefinitions) |->
     [completed |-> indexOf(STATE_ORDER, stepDefinitions[i]) < indexOf(STATE_ORDER, state),
      current |-> stepDefinitions[i] = state]]

\* tripContext.state, useTripState line 431: trip?.state || "INIT"
tripContextState(cache) ==
  IF cache.loaded /\ cache.data # "" THEN cache.data ELSE "INIT"

\* The state of a POST /api/trips body: a state of the order, another string,
\* or none ("").
PostedStates == {STATE_ORDER[i] : i \in 1..Len(STATE_ORDER)} \cup {"ARCHIVED", ""}

\* MemStorage.createTrip, routes.ts lines 440-455: the trip stored under the
\* tripId is replaced; its state is the posted one or "INIT".
createTrip(state) == IF state # "" THEN state ELSE "INIT"

\* `trip` holds the stored state of the demo trip (created with
\* COLLECTING_DATES, routes.ts lines 263-269), the client's trip query and
\* its cached trip, and the number of POST /api/trips so far.  The hook mounts
\* with the trip query fetching.
TripInit ==
  /\ focus = "trip"
  /\ tz = 0
  /\ trial = NoTrial
  /\ conn = NoConn
  /\ trip = [kind |-> "trip", stored |-> createTrip("COLLECTING_DATES"),
             query |-> [st |-> "requested", data |-> ""],
             cache |-> [loaded |-> FALSE, data |-> ""], posts |-> 0]
  /\ votesCache = Undefined /\ availCache = Undefined
  /\ votesQuery = FetchingQuery /\ availQuery = FetchingQuery
  /\ mutations = [m \in Slots |-> FreshMutation]
  /\ wsWire = << >> /\ wsMessages = << >> /\ lastProcessedIndex = -1
  /\ joined = FALSE /\ dispatched = << >>
  /\ sVotes = << >> /\ currentVoteId = 1
  /\ sAvail = << >> /\ currentAvailabilityId = 1
  /\ missed = [votes |-> FALSE, availability |-> FALSE]

TripFrame ==
  UNCHANGED << focus, tz, trial, conn, votesCache, availCache, votesQuery, availQuery,
               mutations, wsVars, serverVars >>

\* POST /api/trips with the tripId of the trip, routes.ts lines 132-140
PostTrip(state) ==
  /\ trip.posts < MaxTripPosts
  /\ trip' = [trip EXCEPT !.stored = createTrip(state), !.posts = @ + 1]
  /\ TripFrame

\* GET /api/trips/:tripId, routes.ts lines 120-130
ServeGetTrip ==
  /\ trip.query.st = "requested"
  /\ trip' = [trip EXCEPT !.query = [st |-> "responded", data |-> trip.stored]]
  /\ TripFrame

\* The response of the trip query arrives.
TripFetched ==
  /\ trip.query.st = "responded"
  /\ trip' = [trip EXCEPT !.cache = [loaded |-> TRUE, data |-> trip.query.data],
                          !.query = [st |-> "idle", data |-> ""]]
  /\ TripFrame

\* The WebSocket effect dispatches an event that invalidates the trip query.
TripInvalidated(type) ==
  /\ "trip" \in Invalidates(type)
  /\ trip.query.st # "requested"
  /\ trip' = [trip EXCEPT !.query = [st |-> "requested", data |-> ""]]
  /\ TripFrame

TripNext ==
  \/ \E state \in PostedStates : PostTrip(state)
  \/ ServeGetTrip
  \/ TripFetched
  \/ \E type \in EventTypes : TripInvalidated(type)

SpecTrip == TripInit /\ [][TripNext]_vars

\* The position of a state in the lifecycle, from 0; -1 for any other string.
Rank(state) ==
  CASE state = "INIT" -> 0
    [] state = "COLLECTING_PREFS" -> 1
    [] state = "COLLECTING_DATES" -> 2
    [] state = "GENERATING_HIGH_OPTIONS" -> 3
    [] state = "VOTING_HIGH_LEVEL" -> 4
    [] state = "DETAILED_PLAN_READY" -> 5
    [] state = "GENERATING_DETAIL_OPTIONS" -> 6
    [] state = "HOTELS_FLIGHTS_READY" -> 7
    [] state = "BOOKED" -> 8
    [] OTHER -> 0 - 1

\* The milestones of the claim, in order.
Milestones ==
  << "COLLECTING_DATES", "VOTING_HIGH_LEVEL", "DETAILED_PLAN_READY",
     "HOTELS_FLIGHTS_READY" >>

\* The roadmap of the trip the client shows.
Roadmap == getRoadmapSteps(tripContextState(trip.cache))

\* C19: whatever state the client shows, milestone i is completed iff its
\* state comes strictly before the shown state in the lifecycle and current iff
\* it is the shown state; at most one milestone is current, none is both, the
\* completed ones form a prefix; VOTING_HIGH_LEVEL gives completed, current,
\* neither, neither; a state outside the lifecycle gives four milestones,
\* none completed or current.
C19_RoadmapMarks ==
  trip.kind = "trip" =>
    LET state == tripContextState(trip.cache)
    IN  /\ DOMAIN Roadmap = 1..4
        /\ \A i \in 1..4 :
             /\ Roadmap[i].completed = (Rank(Milestones[i]) < Rank(state))
             /\ Roadmap[i].current = (Milestones[i] = state)
             /\ ~(Roadmap[i].completed /\ Roadmap[i].current)
             /\ Roadmap[i].completed => \A j \in 1..i : Roadmap[j].completed
        /\ Cardinality({i \in 1..4 : Roadmap[i].current}) <= 1
        /\ state = "VOTING_HIGH_LEVEL" =>
             Roadmap = << [completed |-> TRUE, current |-> FALSE],
                          [completed |-> FALSE, current |-> TRUE],
                          [completed |-> FALSE, current |-> FALSE],
                          [completed |-> FALSE, current |-> FALSE] >>
        /\ Rank(state) = 0 - 1 =>
             \A i \in 1..4 : ~Roadmap[i].completed /\ ~Roadmap[i].current

\* C19, the case reached: the client has fetched a trip in VOTING_HIGH_LEVEL
\* and shows the first milestone completed and the second current.
C19_Witness ==
  /\ trip.kind = "trip"
  /\ trip.cache = [loaded |-> TRUE, data |-> "VOTING_HIGH_LEVEL"]
  /\ Roadmap[1].completed /\ ~Roadmap[1].current
  /\ Roadmap[2].current /\ ~Roadmap[2].completed
  /\ ~Roadmap[3].completed /\ ~Roadmap[3].current
  /\ ~Roadmap[4].completed /\ ~Roadmap[4].current

\* C20: neither the stored state nor the state the client shows ever moves
\* to an earlier state of the lifecycle.
C20_LifecycleMonotonic ==
  [][trip.kind = "trip" =>
       /\ (Rank(trip.stored) >= 0 /\ Rank(trip'.stored) >= 0)
            => Rank(trip'.stored) >= Rank(trip.stored)
       /\ (trip.cache.loaded /\ Rank(tripContextState(trip'.cache)) >= 0)
            => Rank(tripContextState(trip'.cache)) >= Rank(tripContextState(trip.cache))]_vars

\* ------------------------------------------------------------- the calendar
\* CalendarMatrix.tsx, lines 233-408, rendered by ChatPage for the acting user.
\* Calendar days are numbered; the month shown has the days of MonthDays.
\* `trial` holds the component:
\*   availability       the `availability` prop of the last render
\*   pendingSelections  the object of that name: its entries, in insertion order
\*   hasChanges         the state of that name
\*   batch, keys        history: the dates the last Save passed to
\*                      onSetBatchAvailability and the day keys they came from
\*   posted             history: what each participant has saved
\*   last, clicks, renders   history: the last step, numbers of clicks and renders
MonthDays == {0, 1}

\* The browser's timezone offset in hours.
Zones == {0 - 12, 0, 11, 12, 14}

\* The participants prop: the userIds of the trip's participants.
participants == Users

\* tripContext.availability, useTripState lines 465-470: a new array in every
\* render, of the cached records with parsed dates; the query's default is [].
tripContextAvailability(cache) ==
  IF ~cache.loaded THEN << >>
  ELSE [i \in 1..Len(cache.data) |->
          [id |-> cache.data[i].id, userId |-> cache.data[i].user_id,
           date |-> parseDate(cache.data[i].date),
           available |-> cache.data[i].available]]

\* getDateKey, lines 300-302: the local calendar day of the Date.
getDateKey(date, zone) == (date + zone) \div 24

\* new Date(Date.UTC(year, month - 1, day, 12, 0, 0)), lines 372-373
NoonOfKey(dateKey) == dateKey * 24 + 12

\* new Date(year, month, day), line 294: local midnight of a calendar cell
CellDate(day, zone) == day * 24 - zone

\* object[key] = value on the entries of an object
put(entries, key, value) ==
  IF \E i \in 1..Len(entries) : entries[i].key = key
  THEN [i \in 1..Len(entries) |->
          IF entries[i].key = key THEN [key |-> key, value |-> value] ELSE entries[i]]
  ELSE Append(entries, [key |-> key, value |-> value])

\* object[key] || false
truthy(entries, key) ==
  \E i \in 1..Len(entries) : entries[i].key = key /\ entries[i].value

RECURSIVE initialSelectionsFrom(_, _, _, _, _)
\* The forEach of lines 265-271 and 392-398, from record i on.
initialSelectionsFrom(entries, availability, i, user, zone) ==
  IF i > Len(availability) THEN entries
  ELSE initialSelectionsFrom(
         IF availability[i].userId = user
         THEN put(entries, getDateKey(availability[i].date, zone),
                  availability[i].available)
         ELSE entries,
         availability, i + 1, user, zone)

\* initialSelections of the init effect and of handleReset
initialSelections(availability, user, zone) ==
  initialSelectionsFrom(<< >>, availability, 1, user, zone)

\* getAvailableUsers, lines 304-320: the participants with an available
\* record on the local day of the cell.
getAvailableUsers(availability, date, zone) ==
  {u \in participants :
     \E i \in 1..Len(availability) :
       /\ availability[i].userId = u
       /\ getDateKey(availability[i].date, zone) = getDateKey(date, zone)
       /\ availability[i].available}

\* isEveryoneAvailable, lines 328-346
isEveryoneAvailable(availability, pending, date, zone) ==
  LET availableUsers == getAvailableUsers(availability, date, zone)
      currentUserPending == truthy(pending, getDateKey(date, zone))
      currentUserInSaved == userId \in availableUsers
      others == Cardinality(availableUsers \ {userId})
  IN  IF currentUserPending THEN others + 1 = Cardinality(participants)
      ELSE IF currentUserInSaved THEN FALSE
      ELSE others = Cardinality(participants)

\* allAvailableDays, line 408
allAvailableDays(availability, pending, zone) ==
  Cardinality({d \in MonthDays :
                 isEveryoneAvailable(availability, pending, CellDate(d, zone), zone)})

\* batchDates of handleSubmit, lines 371-375
batchDates(pending) ==
  [i \in 1..Len(pending) |->
     [date |-> NoonOfKey(pending[i].key), available |-> pending[i].value]]

\* The component after a render of ChatPage: the prop is a new array, so the
\* init effect (deps [availability, userId], lines 262-275) runs.
Rendered(c, cache, zone) ==
  [c EXCEPT !.availability = tripContextAvailability(cache),
            !.pendingSelections =
               initialSelections(tripContextAvailability(cache), userId, zone),
            !.hasChanges = FALSE]

CalendarInit ==
  /\ focus = "calendar"
  /\ tz \in Zones
  /\ conn = NoConn
  /\ trip = NoTrip
  /\ trial = [kind |-> "calendar", availability |-> << >>,
              pendingSelections |-> << >>, hasChanges |-> FALSE,
              batch |-> << >>, keys |-> << >>, posted |-> {},
              last |-> "mount", clicks |-> 0, renders |-> 0]
  /\ votesCache = Undefined /\ availCache = Loaded(<< >>)
  /\ votesQuery = IdleQuery /\ availQuery = IdleQuery
  /\ mutations = [m \in Slots |-> FreshMutation]
  /\ wsWire = << >> /\ wsMessages = << >> /\ lastProcessedIndex = -1
  /\ joined = FALSE /\ dispatched = << >>
  /\ sVotes = << >> /\ currentVoteId = 1
  /\ sAvail = << >> /\ currentAvailabilityId = 1
  /\ missed = [votes |-> FALSE, availability |-> FALSE]

CalendarFrame ==
  UNCHANGED << focus, tz, conn, trip, votesCache, votesQuery, availQuery, mutations,
               wsVars, sVotes, currentVoteId, missed >>

\* handleDateClick, lines 348-361, on the cell of a day of the month
handleDateClick(day) ==
  /\ trial.clicks < MaxClicks
  /\ LET dateKey == getDateKey(CellDate(day, tz), tz)
         currentSelection == truthy(trial.pendingSelections, dateKey)
     IN  trial' = [trial EXCEPT
                     !.pendingSelections = put(@, dateKey, ~currentSelection),
                     !.hasChanges = TRUE,
                     !.last = "click", !.clicks = @ + 1]
  /\ UNCHANGED << availCache, sAvail, currentAvailabilityId >>
  /\ CalendarFrame

\* handleSubmit, lines 363-385: the batch goes to setBatchAvailability, whose
\* onMutate writes the cache; ChatPage renders with the new cache.
handleSubmit ==
  /\ trial.hasChanges
  /\ LET dates == batchDates(trial.pendingSelections)
         cache == BatchOptimistic(availCache, dates, 1, tz)
         sent == [trial EXCEPT
                    !.batch = dates,
                    !.keys = [i \in 1..Len(dates) |-> trial.pendingSelections[i].key],
                    !.last = "submit"]
     IN  /\ availCache' = cache
         /\ trial' = Rendered(sent, cache, tz)
  /\ UNCHANGED << sAvail, currentAvailabilityId >>
  /\ CalendarFrame

\* handleReset, lines 387-402
handleReset ==
  /\ trial.last # "reset"
  /\ trial' = [trial EXCEPT
                 !.pendingSelections = initialSelections(trial.availability, userId, tz),
                 !.hasChanges = FALSE,
                 !.last = "reset"]
  /\ UNCHANGED << availCache, sAvail, currentAvailabilityId >>
  /\ CalendarFrame

\* A participant's Save reaches the store: one record of the day at noon UTC.
SaveStored(user, day, available) ==
  /\ currentAvailabilityId <= MaxSaves
  /\ sAvail' = setDateAvailability(sAvail, currentAvailabilityId,
                                   [userId |-> user, date |-> NoonOfKey(day),
                                    available |-> available])
  /\ currentAvailabilityId' = currentAvailabilityId + 1
  /\ trial' = [trial EXCEPT
                 !.posted = @ \cup {[userId |-> user, day |-> day,
                                     available |-> available]},
                 !.last = "post"]
  /\ UNCHANGED availCache
  /\ CalendarFrame

\* The availability query is refetched after a push event: the cache takes
\* the store's records and ChatPage renders.
AvailabilityRefetched ==
  /\ availCache # Loaded(WireAvailabilities(sAvail))
  /\ availCache' = Loaded(WireAvailabilities(sAvail))
  /\ trial' = Rendered([trial EXCEPT !.last = "refetch"], availCache', tz)
  /\ UNCHANGED << sAvail, currentAvailabilityId >>
  /\ CalendarFrame

\* ChatPage renders for another reason (a chat message, a typing event, a
\* change of isConnected).
ParentRender ==
  /\ trial.renders < MaxRenders
  /\ trial' = Rendered([trial EXCEPT !.last = "render", !.renders = @ + 1],
                       availCache, tz)
  /\ UNCHANGED << availCache, sAvail, currentAvailabilityId >>
  /\ CalendarFrame

CalendarNext ==
  \/ \E day \in MonthDays : handleDateClick(day)
  \/ handleSubmit
  \/ handleReset
  \/ \E user \in participants, day \in MonthDays, available \in BOOLEAN :
       SaveStored(user, day, available)
  \/ AvailabilityRefetched
  \/ ParentRender

SpecCalendar == CalendarInit /\ [][CalendarNext]_vars

\* The participants with an available record saved for the day, in the
\* prop of the last render.
SavedFor(day) ==
  {u \in participants :
     \E i \in 1..Len(trial.availability) :
       /\ trial.availability[i].userId = u
       /\ dayOf(trial.availability[i].date) = day
       /\ trial.availability[i].available}

\* C21: when every participant has saved available = true for one day D and
\* nothing else, the store holds one record per participant and, once the
\* client has them, the calendar counts one everyone-available day; and with
\* no unsaved selection a day of the month is counted iff every participant
\* has an available record saved for that day.
C21_ConsensusCount ==
  trial.kind = "calendar" =>
    /\ \A D \in MonthDays :
         trial.posted = {[userId |-> u, day |-> D, available |-> TRUE] : u \in participants}
           => /\ Len(sAvail) = Cardinality(participants)
              /\ (trial.last = "refetch" /\ availCache = Loaded(WireAvailabilities(sAvail)))
                   => allAvailableDays(trial.availability, trial.pendingSelections, tz) = 1
    /\ trial.last \in {"refetch", "render", "reset"} =>
         \A d \in MonthDays :
           isEveryoneAvailable(trial.availability, trial.pendingSelections,
                               CellDate(d, tz), tz)
             <=> SavedFor(d) = participants

\* C22: every date of the last Save, read back by its local day, is the day
\* whose key it was made from.
C22_NoDayDrift ==
  trial.kind = "calendar" =>
    \A i \in 1..Len(trial.batch) :
      /\ getDateKey(trial.batch[i].date, tz) = trial.keys[i]
      /\ toDateString(trial.batch[i].date, tz) = trial.keys[i]

\* C30: a step that is not a click, Save or Reset of the user leaves
\* pendingSelections and hasChanges as they are.
C30_PendingOwnedByUser ==
  [][(trial.kind = "calendar" /\ trial'.last \in {"render", "refetch", "post"})
       => /\ trial'.pendingSelections = trial.pendingSelections
          /\ trial'.hasChanges = trial.hasChanges]_vars

\* ------------------------------------------------------------- overlapping mutations
\* The cache of the collection mutation k works on.
CacheOf(k, votes, avail) == IF OnVotes(k) THEN votes ELSE avail

\* The cache shows what the variables of mutation k ask for: the vote of the
\* triple, or records of the user on the days with the availability asked.
Shows(cache, k) ==
  LET v == mutations[k].variables
      HasDay(date, available) ==
        \E i \in 1..Len(cache.data) :
          SameDay(cache.data[i], date, tz) /\ cache.data[i].available = available
  IN  /\ cache.loaded
      /\ CASE mutations[k].kind = "vote" ->
                \E i \in 1..Len(cache.data) : SameVote(cache.data[i], v.optionId, v.emoji)
           [] mutations[k].kind = "availability" -> HasDay(v.date, v.available)
           [] OTHER -> /\ v # << >>
                       /\ \A j \in 1..Len(v) : HasDay(v[j].date, v[j].available)

\* The optimistic change of mutation k is in the cache: the cache differs from
\* the one k started from in what k asked for.
HoldsChangeOf(k, cache) ==
  /\ mutations[k].before.loaded
  /\ cache.loaded
  /\ Shows(cache, k) # Shows(mutations[k].before, k)

\* C24: when a mutation fails while a mutation started after it on the same
\* collection is in flight, the rollback leaves the later mutation's
\* optimistic change in the cache.
C24_LaterChangeSurvives ==
  [][\A m, k \in Slots :
       (/\ mutations[m].pc \in {"sent", "served"}
        /\ mutations'[m].pc = "rolledBack"
        /\ InFlight(k)
        /\ m \in mutations[k].earlier
        /\ HoldsChangeOf(k, CacheOf(k, votesCache, availCache)))
         => HoldsChangeOf(k, CacheOf(k, votesCache', availCache'))]_vars

\* ------------------------------------------------------------- onMutate, step by step
\* The three onMutate callbacks are async functions that await
\* queryClient.cancelQueries before they touch the cache (part_004 lines
\* 103-108, 206-210, 286-290), and mutationFn is called when onMutate has
\* resolved.  Here the user action, the two halves of onMutate and the call of
\* mutationFn are steps of their own: pc is "called" after mutate(),
\* "cancelled" after cancelQueries, "updated" after setQueryData, "sent" when
\* the POST is issued.  cancelQueries settles on cancelling (no timer, no
\* network), so the later steps are microtasks of the task that called
\* mutate(); a callback of another task (a socket message, a fetch response,
\* the effect run by React's scheduler, another click) starts only when no
\* microtask is pending.

\* A variant that lets tasks start at any time.
NeverBusy(ms) == TRUE

\* No microtask of an onMutate is pending.
MicrotasksIdle(ms) ==
  \A m \in Slots : ms[m].pc \notin {"called", "cancelled", "updated"}

\* The updater of mutation m's onMutate applied to a cache.
OptimisticOf(m, cache) ==
  LET v == mutations[m].variables
  IN  CASE mutations[m].kind = "vote" -> VoteOptimistic(cache, v.optionId, v.emoji, 1)
        [] mutations[m].kind = "availability" ->
             AvailabilityOptimistic(cache, v.date, v.available, 1, tz)
        [] OTHER -> BatchOptimistic(cache, v, 1, tz)

\* vote(), setAvailability() or setBatchAvailability() is called in an event
\* handler: mutate() starts the mutation; onMutate has not run yet.
mutate(m, kind, variables) ==
  /\ NextMutation(m)
  /\ mutations' = [mutations EXCEPT ![m] =
       [FreshMutation EXCEPT
          !.pc = "called", !.kind = kind, !.variables = variables,
          !.before = IF kind = "vote" THEN votesCache ELSE availCache]]
  /\ UNCHANGED << setting, votesCache, availCache, votesQuery, availQuery >>
  /\ UNCHANGED << wsVars, serverVars >>

\* onMutate up to its await: cancelQueries on the collection's key.
onMutateStart(m) ==
  /\ mutations[m].pc = "called"
  /\ IF OnVotes(m)
     THEN votesQuery' = cancelQueries(votesQuery) /\ UNCHANGED availQuery
     ELSE availQuery' = cancelQueries(availQuery) /\ UNCHANGED votesQuery
  /\ mutations' = [mutations EXCEPT ![m].pc = "cancelled"]
  /\ UNCHANGED << setting, votesCache, availCache >>
  /\ UNCHANGED << wsVars, serverVars >>

\* onMutate after its await: the snapshot and setQueryData.
onMutateResume(m) ==
  /\ mutations[m].pc = "cancelled"
  /\ IF OnVotes(m)
     THEN votesCache' = OptimisticOf(m, votesCache) /\ UNCHANGED availCache
     ELSE availCache' = OptimisticOf(m, availCache) /\ UNCHANGED votesCache
  /\ mutations' = [mutations EXCEPT ![m] =
       [Started(mutations[m].kind, mutations[m].variables,
                CacheOf(m, votesCache, availCache),
                {k \in Slots : InFlight(k) /\ OnVotes(k) = OnVotes(m)})
          EXCEPT !.pc = "updated", !.before = mutations[m].before]]
  /\ UNCHANGED << setting, votesQuery, availQuery >>
  /\ UNCHANGED << wsVars, serverVars >>

\* mutationFn is called: the POST is issued.
mutationFn(m) ==
  /\ mutations[m].pc = "updated"
  /\ mutations' = [mutations EXCEPT ![m].pc = "sent"]
  /\ UNCHANGED << setting, votesCache, availCache, votesQuery, availQuery >>
  /\ UNCHANGED << wsVars, serverVars >>

LoopNext ==
  \/ \E m \in Slots, o \in Options, e \in Emojis :
       /\ focus = "votes" /\ MicrotasksIdle(mutations)
       /\ mutate(m, "vote", [optionId |-> o, emoji |-> e])
  \/ \E m \in Slots, d \in CalendarDays, a \in BOOLEAN :
       /\ focus = "availability" /\ MicrotasksIdle(mutations)
       /\ mutate(m, "availability", [date |-> LocalMidnight(d, tz), available |-> a])
  \/ \E m \in Slots, ds \in Batches :
       /\ focus = "availability" /\ MicrotasksIdle(mutations)
       /\ mutate(m, "batch", ds)
  \/ \E m \in Slots : onMutateStart(m)
  \/ \E m \in Slots : onMutateResume(m)
  \/ \E m \in Slots : mutationFn(m)
  \/ \E m \in Slots : ServePost(m)
  \/ \E m \in Slots : MicrotasksIdle(mutations) /\ OnError(m)
  \/ \E m \in Slots : MicrotasksIdle(mutations) /\ OnSettled(m)
  \/ ServeGetVotes
  \/ ServeGetAvailability
  \/ MicrotasksIdle(mutations) /\ VotesFetched
  \/ MicrotasksIdle(mutations) /\ AvailabilityFetched
  \/ JoinTrip
  \/ MicrotasksIdle(mutations) /\ OnMessage
  \/ MicrotasksIdle(mutations) /\ DispatchEffect

SpecLoop == SyncInit /\ [][LoopNext]_vars

\* A query as the client sees it: a request on its way and a response on its
\* way are both a fetch in flight.
Fetching(q) == IF q.st \in {"requested", "responded"} THEN "fetching" ELSE q.st

\* What the client holds apart from the mutation itself.
ClientSide(m) ==
  << votesCache, availCache, Fetching(votesQuery), Fetching(availQuery), wsMessages,
     lastProcessedIndex,
     [k \in Slots \ {m} |-> [mutations[k] EXCEPT !.pc = IF @ = "served" THEN "sent" ELSE @]] >>

TornDownFor(c, tripId) == ~c.mounted \/ c.tripId # tripId

\* C25: once the hook is torn down for a trip, no socket is created for that
\* trip and no join_trip is sent for it: neither a close at or after the
\* teardown nor a timer pending at the teardown leads to a reconnect.
C25_NoReconnectAfterTeardown ==
  [][conn.kind = "socket" =>
       /\ Len(conn'.socks) > Len(conn.socks) =>
            ~TornDownFor(conn', conn'.socks[Len(conn'.socks)].trip)
       /\ \A s \in SocksIn(conn, {"connecting"}) :
            conn'.socks[s].st = "open" => ~TornDownFor(conn, conn.socks[s].trip)
       /\ \A tripId \in Trips :
            TornDownFor(conn, tripId) =>
              \A i \in 1..Len(conn'.timers) :
                conn'.timers[i].trip = tripId =>
                  \E j \in 1..Len(conn.timers) : conn.timers[j] = conn'.timers[i]]_vars


\* ---------------------------------------------------------------------------
\* The WebSocket server and the POST routes over several connections
\* (C26 - C29): server/routes.ts lines 18-117, 151-170, 181-205, 231-251.
\* Every handler awaits MemStorage only, which settles without I/O, so a
\* handler runs to its end before the next event is taken.
\* ---------------------------------------------------------------------------

MaxConns == 2
MaxLeaves == 1
MaxRequests == 2

Conns == 1..MaxConns
Routes == {"messages", "votes", "availability"}

\* A connection the server has not accepted yet.
NoSocket == [st |-> "none", tripId |-> "", userId |-> 0]

\* The participants seeded at start-up, routes.ts lines 272-274: addParticipant
\* stores isOnline: true.
SeededParticipants ==
  [t \in Trips |-> IF t = "t1"
                   THEN [n \in 1..Cardinality(Users) |-> [userId |-> n, isOnline |-> TRUE]]
                   ELSE << >>]

\* MemStorage.updateParticipantOnlineStatus, lines 484-491
updateParticipantOnlineStatus(tripParticipants, tripId, user, isOnline) ==
  LET list == tripParticipants[tripId]
      found == {n \in 1..Len(list) : list[n].userId = user}
  IN  IF found = {} THEN tripParticipants
      ELSE LET first == CHOOSE n \in found : \A k \in found : n <= k
           IN  [tripParticipants EXCEPT ![tripId][first].isOnline = isOnline]

\* broadcastToTrip, lines 108-117: what each connection is sent by one call.
broadcastToConnections(ws, connections, tripId, message, exclude) ==
  [c \in Conns |->
     IF c \in connections[tripId] /\ c # exclude /\ ws[c].st = "open"
     THEN << message >> ELSE << >>]

\* tripConnections.delete(ws), lines 50-56 and 87-93
unregister(connections, tripId, c) == [connections EXCEPT ![tripId] = @ \ {c}]

AlwaysNewMessage(route) == "new_message"

\* The event a route broadcasts, lines 160, 194, 240.
EventOf(route) ==
  CASE route = "messages" -> "new_message"
    [] route = "votes" -> "vote_update"
    [] OTHER -> "availability_update"

\* MemStorage.createMessage, lines 497-512
createMessage(messages, id, insertMessage) ==
  Append(messages, [id |-> id, userId |-> insertMessage.userId])

Nothing == [c \in Conns |-> << >>]
NoRequest == [route |-> "", tripId |-> "", valid |-> FALSE, id |-> 0]

PresenceInit ==
  /\ focus \in {"presence", "routes"}
  /\ tz = 0
  /\ conn = NoConn
  /\ trip = NoTrip
  /\ trial = [kind |-> "presence",
              ws |-> [c \in Conns |-> NoSocket],
              connections |-> [t \in Trips |-> {}],
              tripParticipants |-> SeededParticipants,
              store |-> [r \in Routes |-> [t \in Trips |-> << >>]],
              currentId |-> [r \in Routes |-> 1],
              got |-> Nothing,
              lefts |-> [c \in Conns |-> 0],
              posts |-> 0,
              req |-> NoRequest]
  /\ votesCache = Undefined /\ availCache = Undefined
  /\ votesQuery = IdleQuery /\ availQuery = IdleQuery
  /\ mutations = [m \in Slots |-> FreshMutation]
  /\ wsWire = << >> /\ wsMessages = << >> /\ lastProcessedIndex = -1
  /\ joined = FALSE /\ dispatched = << >>
  /\ sVotes = << >> /\ currentVoteId = 1
  /\ sAvail = << >> /\ currentAvailabilityId = 1
  /\ missed = [votes |-> FALSE, availability |-> FALSE]

PresenceFrame ==
  UNCHANGED << focus, tz, conn, trip, votesCache, availCache, votesQuery, availQuery,
               mutations, wsVars, serverVars >>

\* wss.on('connection'), line 20: connections are numbered as they arrive.
onConnection(c) ==
  /\ trial.ws[c].st = "none"
  /\ \A k \in 1..(c - 1) : trial.ws[k].st # "none"
  /\ trial' = [trial EXCEPT !.ws[c].st = "open", !.got = Nothing, !.req = NoRequest]
  /\ PresenceFrame

\* case 'join_trip', lines 28-46
onJoinTrip(c, tripId, user) ==
  /\ trial.ws[c].st = "open"
  /\ LET ws == [trial.ws EXCEPT ![c].tripId = tripId, ![c].userId = user]
         connections == [trial.connections EXCEPT ![tripId] = @ \cup {c}]
     IN  trial' = [trial EXCEPT
                     !.ws = ws,
                     !.connections = connections,
                     !.tripParticipants =
                        updateParticipantOnlineStatus(@, tripId, user, TRUE),
                     !.got = broadcastToConnections(ws, connections, tripId,
                               [type |-> "user_joined", tripId |-> tripId], 0),
                     !.lefts[c] = 0,
                     !.req = NoRequest]
  /\ PresenceFrame

\* What leave_trip and close do for a connection whose tripId and userId are
\* set, lines 49-67 and 86-104.
depart(p, c, st) ==
  LET ws == [p.ws EXCEPT ![c].st = st]
      connections == unregister(p.connections, p.ws[c].tripId, c)
  IN  IF p.ws[c].tripId # "" /\ p.ws[c].userId # 0
      THEN [p EXCEPT
              !.ws = ws,
              !.connections = connections,
              !.tripParticipants =
                 updateParticipantOnlineStatus(@, p.ws[c].tripId, p.ws[c].userId, FALSE),
              !.got = broadcastToConnections(ws, connections, p.ws[c].tripId,
                        [type |-> "user_left", tripId |-> p.ws[c].tripId], 0),
              !.lefts[c] = @ + 1,
              !.req = NoRequest]
      ELSE [p EXCEPT !.ws = ws, !.got = Nothing, !.req = NoRequest]

\* case 'leave_trip', lines 48-68
onLeaveTrip(c) ==
  /\ focus = "presence"
  /\ trial.ws[c].st = "open"
  /\ trial.lefts[c] < MaxLeaves
  /\ trial' = depart(trial, c, "open")
  /\ PresenceFrame

\* case 'typing', lines 70-78
onTyping(c) ==
  /\ focus = "presence"
  /\ trial.ws[c].st = "open"
  /\ trial' = [trial EXCEPT
                 !.req = NoRequest,
                 !.got = IF trial.ws[c].tripId # ""
                         THEN broadcastToConnections(trial.ws, trial.connections,
                                trial.ws[c].tripId,
                                [type |-> "typing", tripId |-> trial.ws[c].tripId], c)
                         ELSE Nothing]
  /\ PresenceFrame

\* ws.on('close'), lines 85-105
onConnClose(c) ==
  /\ trial.ws[c].st = "open"
  /\ trial' = depart(trial, c, "closed")
  /\ PresenceFrame

\* The write of a route, lines 157, 189-192, 238.
storeWrite(route, rows, id, data) ==
  CASE route = "messages" -> createMessage(rows, id, data)
    [] route = "votes" -> PostVote(rows, id, data)
    [] OTHER -> setDateAvailability(rows, id, data)

StoreBeforeWrite(before, after) == before

\* What a GET of the collection returns at the moment the route broadcasts.
StoreAtBroadcast(before, after) == after

\* The body a client of the route posts.
BodyOf(route, user) ==
  CASE route = "messages" -> [userId |-> user]
    [] route = "votes" -> [userId |-> user, optionId |-> "culture-history", emoji |-> "up"]
    [] OTHER -> [userId |-> user, date |-> 0, available |-> TRUE]

\* app.post of messages, votes and availability, lines 151-170, 181-205,
\* 231-251: parse, write, broadcast; a body the schema rejects is answered 400.
handlePost(route, tripId, user, valid) ==
  /\ focus = "routes"
  /\ trial.posts < MaxRequests
  /\ LET id == trial.currentId[route]
         before == trial.store[route][tripId]
         after == storeWrite(route, before, id, BodyOf(route, user))
         req == [route |-> route, tripId |-> tripId, valid |-> valid, id |-> id]
     IN  trial' = IF valid
                  THEN [trial EXCEPT
                          !.store[route][tripId] = after,
                          !.currentId[route] = @ + 1,
                          !.got = broadcastToConnections(trial.ws, trial.connections, tripId,
                                    [type |-> EventOf(route), tripId |-> tripId,
                                     observes |-> StoreAtBroadcast(before, after)], 0),
                          !.posts = @ + 1,
                          !.req = req]
                  ELSE [trial EXCEPT !.got = Nothing, !.posts = @ + 1, !.req = req]
  /\ PresenceFrame

PresenceNext ==
  \/ \E c \in Conns : onConnection(c)
  \/ \E c \in Conns, tripId \in Trips, user \in Users : onJoinTrip(c, tripId, user)
  \/ \E c \in Conns : onLeaveTrip(c)
  \/ \E c \in Conns : onTyping(c)
  \/ \E c \in Conns : onConnClose(c)
  \/ \E route \in Routes, tripId \in Trips, user \in Users, valid \in BOOLEAN :
       handlePost(route, tripId, user, valid)

SpecPresence == PresenceInit /\ [][PresenceNext]_vars


\* The connections whose latest join_trip was for the trip as the user.
JoinedAs(p, tripId, user) ==
  {c \in Conns : p.ws[c].tripId = tripId /\ p.ws[c].userId = user}

\* Those of them that are open and registered for the trip.
RegisteredAs(p, tripId, user) ==
  {c \in JoinedAs(p, tripId, user) : p.ws[c].st = "open" /\ c \in p.connections[tripId]}

\* The participant rows of the user in the trip.
ParticipantRows(p, tripId, user) ==
  {n \in 1..Len(p.tripParticipants[tripId]) : p.tripParticipants[tripId][n].userId = user}

\* C26: for a participant some connection has joined as, isOnline is true
\* exactly when an open connection that joined the trip as that user is
\* registered.
C26_PresenceFollowsConnections ==
  trial.kind = "presence" =>
    \A tripId \in Trips, user \in Users :
      JoinedAs(trial, tripId, user) # {} =>
        \A n \in ParticipantRows(trial, tripId, user) :
          trial.tripParticipants[tripId][n].isOnline
            <=> RegisteredAs(trial, tripId, user) # {}

\* C27: every event a connection is sent belongs to the trip of its latest
\* join_trip, and a connection that has left or has closed is in no trip's
\* connection set.
C27_TripIsolation ==
  trial.kind = "presence" =>
    \A c \in Conns :
      /\ \A k \in 1..Len(trial.got[c]) : trial.got[c][k].tripId = trial.ws[c].tripId
      /\ (trial.ws[c].st = "closed" \/ trial.lefts[c] > 0) =>
           \A tripId \in Trips : c \notin trial.connections[tripId]

\* C28: a connection causes at most one user_left (with its offline update)
\* per join, none if it never joined, and exactly one once it has joined and
\* closed.
C28_OneUserLeft ==
  trial.kind = "presence" =>
    \A c \in Conns :
      /\ trial.lefts[c] <= 1
      /\ trial.ws[c].tripId = "" => trial.lefts[c] = 0
      /\ (trial.ws[c].st = "closed" /\ trial.ws[c].tripId # "") => trial.lefts[c] = 1

\* The event kind that matches a route.
Matches(route, type) ==
  \/ route = "messages" /\ type = "new_message"
  \/ route = "votes" /\ type = "vote_update"
  \/ route = "availability" /\ type = "availability_update"

\* C29: a successful POST of a message, a vote or an availability sends each
\* open connection registered for the trip exactly one event of the matching
\* kind and nothing to any other connection, the row it wrote is in the store
\* when the event is sent, and no other collection changes; a POST that fails
\* validation changes no collection and sends nothing.
C29_WriteThenBroadcast ==
  [][(trial.kind = "presence" /\ trial'.posts = trial.posts + 1) =>
       LET r == trial'.req
           open == {c \in trial.connections[r.tripId] : trial.ws[c].st = "open"}
       IN  IF r.valid
           THEN /\ \A c \in Conns \ open : trial'.got[c] = << >>
                /\ \A c \in open :
                     /\ Len(trial'.got[c]) = 1
                     /\ Matches(r.route, trial'.got[c][1].type)
                     /\ trial'.got[c][1].tripId = r.tripId
                     /\ \E k \in 1..Len(trial'.got[c][1].observes) :
                          trial'.got[c][1].observes[k].id = r.id
                /\ \E k \in 1..Len(trial'.store[r.route][r.tripId]) :
                     trial'.store[r.route][r.tripId][k].id = r.id
                /\ \A route \in Routes, tripId \in Trips :
                     << route, tripId >> # << r.route, r.tripId >> =>
                       trial'.store[route][tripId] = trial.store[route][tripId]
           ELSE /\ trial'.store = trial.store
                /\ trial'.currentId = trial.currentId
                /\ trial'.got = Nothing]_vars

\* C29, the case reached: after a rejected POST, a vote posted to a trip has
\* been broadcast to the two connections registered for it.
C29_Witness ==
  /\ trial.kind = "presence"
  /\ trial.posts = 2
  /\ trial.req.valid
  /\ trial.req.route = "votes"
  /\ trial.req.id = 1
  /\ \A c \in Conns : Len(trial.got[c]) = 1 /\ trial.got[c][1].type = "vote_update"


====
